---- MODULE Spec2Model ----
(***************************************************************************)
(* Model of the trace agent's per-payload pipeline (package agent):        *)
(* Agent.Process, Agent.sample and the sampler composition of              *)
(* Agent.runSamplers / samplePriorityTrace / sampleNoPriorityTrace.        *)
(*                                                                         *)
(* A payload's traces are referred to by their position in p.Traces, as    *)
(* the Go slices hold pointers to the payload's spans.  The samplers, the  *)
(* event processor, the normalizer and the filters live outside the agent  *)
(* file; their results are inputs of the step that calls them.             *)
(*                                                                         *)
(* SpecLife models Agent.Run, Agent.loop and the pool of Agent.work        *)
(* goroutines around a.In and the output channels: the start and stop      *)
(* sequences, the cancellation of the context and the workers' receives    *)
(* and sends.                                                              *)
(*                                                                         *)
(* SpecStats models Agent.ProcessStats on its own, SpecQueues puts it      *)
(* beside Process with the three output channels, and SpecCount has        *)
(* several workers add to the TagStats of one Source.                      *)
(*                                                                         *)
(* SpecRunFair is the running agent, never cancelled, under fair           *)
(* scheduling; SpecPb marshals pb.ClientStatsPayload messages to bytes and  *)
(* unmarshals the bytes.                                                   *)
(***************************************************************************)
EXTENDS Integers, Sequences, FiniteSets, TLC

\* ------------------------------------------------------------------ bounds
\* spans per trace
MaxSpans == 2
\* traces per payload
MaxTraces == 2
\* traces per run of the pipeline (Spec)
MaxRunTraces == 2
\* traces per run of the sampling coordinator (SpecSample)
MaxSampleTraces == 1
\* capacity of the output channels
ChanCap == 1
\* runtime.NumCPU(): the workers of the pool
NumWorkers == 2
\* the payloads the receiver puts on a.In in a run
MaxPayloads == 2
\* the buckets of a marshalled payload and the groups of a bucket
MaxBuckets == 2
MaxGroups == 2

Workers == 1..NumWorkers

\* ------------------------------------------------------- program constants
\* writer.MaxPayloadSize, scaled to the unit span size of the model.
MaxPayloadSize == 2
\* msgp size of one encoded span, the unit of SampledSpans.Size.
SpanMsgsize == 1

KeySamplingPriority == "_sampling_priority_v1"
KeySamplingRateGlobal == "_sample_rate"
DefaultEnv == "none"
\* The metric traceutil.SetTopLevel writes and the prefix of the metrics
\* stats.SetSublayersOnSpan writes.
KeyTopLevel == "_top_level"
KeySublayersByService == "_sublayers.duration.by_service.sublayer_service:"

\* ------------------------------------------------------------ input domains
\* Sampling priorities a client can set on the root span.
Priorities == {-1, 0, 1, 2}
\* Sampling rates, as fractions <<numerator, denominator>> in lowest terms.
Rates == {<<1, 2>>, <<1, 4>>}
Resources == {"SELECT 42", "SELECT ?", "GET /u/7", "GET /"}
\* conf.Ignore["resource"]: the resources the blacklist rejects.
Blacklist == {"SELECT ?"}

EmptyMetrics == [k \in {} |-> 0]

\* A span: the fields of pb.Span the pipeline reads or writes.
MkSpan(tid, id, parent, res, err, metrics) ==
    [TraceID |-> tid, SpanID |-> id, ParentID |-> parent, Service |-> "web",
     Resource |-> res, Error |-> err, Metrics |-> metrics]

\* A trace of n spans whose root (ParentID 0) stands at position rootAt, with
\* an error on span errAt (0: none), the given resource on every span and the
\* priority metric (or none) on the root; an invalid trace has TraceID 0.
MkTrace(n, rootAt, errAt, res, hasPrio, prio, valid) ==
    [i \in 1..n |->
        MkSpan(IF valid THEN 1 ELSE 0, i,
               IF i = rootAt THEN 0 ELSE rootAt,
               res,
               IF i = errAt THEN 1 ELSE 0,
               IF i = rootAt /\ hasPrio
                   THEN [k \in {KeySamplingPriority} |-> prio]
                   ELSE EmptyMetrics)]

\* The traces of the pipeline runs: the empty trace, a trace the normalizer
\* rejects, a trace the blacklist rejects, a trace with a negative and one
\* with a positive priority, traces without priority of one or MaxSpans
\* spans, with or without an error, and a single span on every resource the
\* blacklist allows.
PipelineTraces ==
    {<<>>,
     MkTrace(2, 1, 0, "GET /", FALSE, 0, FALSE),
     MkTrace(2, 1, 0, "SELECT ?", FALSE, 0, TRUE),
     MkTrace(1, 1, 0, "GET /", TRUE, -1, TRUE),
     MkTrace(1, 1, 0, "GET /", TRUE, 1, TRUE)}
    \cup UNION {{MkTrace(n, 1, e, "GET /", FALSE, 0, TRUE) : e \in {0, n}} :
                n \in {1, MaxSpans}}
    \cup {MkTrace(1, 1, 0, res, FALSE, 0, TRUE) :
             res \in Resources \ Blacklist}

\* The traces of the sampling runs: those of the pipeline runs and, on one
\* resource, every length with the root and the error on the first or the
\* last span, without priority or with priority -1 or 1, and single spans
\* of every priority, and traces whose last span runs in another service
\* than its parent.
InputTraces ==
    PipelineTraces
    \cup {[MkTrace(MaxSpans, 1, 0, "GET /", hp, 1, TRUE)
               EXCEPT ![MaxSpans].Service = "db"] : hp \in BOOLEAN}
    \cup UNION {{MkTrace(n, r, e, "GET /", hp, p, TRUE) :
                    r \in {1, n}, e \in {0, n}, hp \in BOOLEAN,
                    p \in {-1, 1}} : n \in 1..MaxSpans}
    \cup {MkTrace(1, 1, e, "GET /", TRUE, p, TRUE) :
            e \in {0, 1}, p \in Priorities}

\* --------------------------------------------------------- external helpers
RECURSIVE Gcd(_, _)
Gcd(a, b) == IF b = 0 THEN a ELSE Gcd(b, a % b)

Frac(n, d) == <<n \div Gcd(n, d), d \div Gcd(n, d)>>

\* sampler.CombineRates: 1 / (1/r1 + 1/r2 - 1) on fractions.
CombineRates(r1, r2) ==
    Frac(r1[1] * r2[1], r1[2] * r2[1] + r2[2] * r1[1] - r1[1] * r2[1])

\* sampler.GetSamplingPriority: the priority metric of the span and whether
\* it is set; the zero value when it is not.
GetSamplingPriority(s) ==
    IF KeySamplingPriority \in DOMAIN s.Metrics
        THEN <<s.Metrics[KeySamplingPriority], TRUE>>
        ELSE <<0, FALSE>>

\* sampler.GetGlobalRate: the global rate metric, 1 when unset.
GetGlobalRate(s) ==
    IF KeySamplingRateGlobal \in DOMAIN s.Metrics
        THEN s.Metrics[KeySamplingRateGlobal]
        ELSE <<1, 1>>

\* sampler.AddGlobalRate: multiplies the span's global rate by rate.
AddGlobalRate(s, rate) ==
    LET g == GetGlobalRate(s)
        m == Frac(g[1] * rate[1], g[2] * rate[2])
    IN [s EXCEPT !.Metrics =
            [k \in DOMAIN s.Metrics \cup {KeySamplingRateGlobal} |->
                IF k = KeySamplingRateGlobal THEN m ELSE s.Metrics[k]]]

\* traceutil.GetRoot: the position of the span without a local parent.
GetRoot(t) == CHOOSE i \in 1..Len(t) : t[i].ParentID = 0

\* normalizeTrace: an error for a trace holding a span without trace id.
normalizeTrace(t) == \E i \in 1..Len(t) : t[i].TraceID = 0

\* Blacklister.Allows: the root's resource matches no ignored resource.
Allows(span) == span.Resource \notin Blacklist

\* obfuscator.Obfuscate: replaces the literals of a query resource.
Obfuscate(span) ==
    [span EXCEPT !.Resource = IF @ = "SELECT 42" THEN "SELECT ?" ELSE @]

\* Truncate: resources of the model are below the length limit.
Truncate(span) == span

\* Replacer.Replace: the replace_tags rule on resource.name, which masks the
\* user id of a path, applied to every span.
Replace(t) ==
    [i \in 1..Len(t) |->
        [t[i] EXCEPT !.Resource = IF @ = "GET /u/7" THEN "GET /u/?" ELSE @]]

\* Trace.Msgsize / pb.Trace(events).Msgsize.
Msgsize(t) == Len(t) * SpanMsgsize

SetMetric(span, key, value) ==
    [span EXCEPT !.Metrics =
        [k \in DOMAIN span.Metrics \cup {key} |->
            IF k = key THEN value ELSE span.Metrics[k]]]

\* traceutil.HasTopLevel.
HasTopLevel(span) ==
    KeyTopLevel \in DOMAIN span.Metrics /\ span.Metrics[KeyTopLevel] = 1

\* traceutil.ComputeTopLevel: marks the spans without parent, with a parent
\* outside the trace or with a parent of another service.
ComputeTopLevel(t) ==
    [i \in 1..Len(t) |->
        IF \/ t[i].ParentID = 0
           \/ \A j \in 1..Len(t) : t[j].SpanID # t[i].ParentID
           \/ \E j \in 1..Len(t) : /\ t[j].SpanID = t[i].ParentID
                                   /\ t[j].Service # t[i].Service
          THEN SetMetric(t[i], KeyTopLevel, 1)
          ELSE t[i]]

\* Span a is span i or one of its ancestors, looked up over at most n links.
RECURSIVE Under(_, _, _, _)
Under(t, a, i, n) ==
    \/ a = i
    \/ /\ n > 0
       /\ \E j \in 1..Len(t) : /\ t[j].SpanID = t[i].ParentID
                                /\ Under(t, a, j, n - 1)

\* stats.ExtractSubtraces: one subtrace per top-level span reachable from
\* the root, holding the span and its descendants (by position).
ExtractSubtraces(t, root) ==
    {[Root |-> r,
      Trace |-> {i \in 1..Len(t) : Under(t, r, i, Len(t))}] :
        r \in {i \in 1..Len(t) : /\ HasTopLevel(t[i])
                                  /\ Under(t, root, i, Len(t))}}

\* SublayerCalculator.ComputeSublayers: one value per service of the
\* subtrace, a unit standing for the service's share of the time.
ComputeSublayers(t, subtrace) ==
    {[Metric |-> KeySublayersByService \o svc,
      Value |-> 1] : svc \in {t[i].Service : i \in subtrace}}

\* stats.SetSublayersOnSpan: every value becomes a metric of the span.
SetSublayersOnSpan(span, values) ==
    [span EXCEPT !.Metrics =
        [k \in DOMAIN span.Metrics \cup {v.Metric : v \in values} |->
            IF \E v \in values : v.Metric = k
              THEN (CHOOSE v \in values : v.Metric = k).Value
              ELSE span.Metrics[k]]]

\* ----------------------------------------------------------------- samplers
\* The samplers and the event processor as seen by the agent: o holds what
\* each would answer for the trace at hand, calls counts the invocations.
SamplerResults == BOOLEAN \X Rates
\* EventProcessor.Process outcomes: <<number of events kept, numExtracted>>.
EventResults == {<<0, 0>>, <<1, 1>>}
NoCalls == [Priority |-> 0, Errors |-> 0, Score |-> 0, Exception |-> 0,
            Events |-> 0]

NewWorld(o) == [o |-> o, calls |-> NoCalls]

\* The decision of PrioritySampler.Add for a trace whose client set the
\* given priority: the client's choice is followed.
PrioritySamplerKeeps(priority) == priority > 0

PrioritySamplerAdd(w) ==
    [sampled |-> w.o.priority[1], rate |-> w.o.priority[2],
     w |-> [w EXCEPT !.calls.Priority = @ + 1]]

ErrorsScoreSamplerAdd(w) ==
    [sampled |-> w.o.errors[1], rate |-> w.o.errors[2],
     w |-> [w EXCEPT !.calls.Errors = @ + 1]]

ScoreSamplerAdd(w) ==
    [sampled |-> w.o.score[1], rate |-> w.o.score[2],
     w |-> [w EXCEPT !.calls.Score = @ + 1]]

ExceptionSamplerAdd(w) ==
    [sampled |-> w.o.exception,
     w |-> [w EXCEPT !.calls.Exception = @ + 1]]

\* EventProcessor.Process: the events (positions of spans of the trace) and
\* the number of extracted events.
EventProcessorProcess(pt, w) ==
    [events |-> IF w.o.events[1] = 1 THEN <<pt.Root>> ELSE <<>>,
     numExtracted |-> w.o.events[2],
     w |-> [w EXCEPT !.calls.Events = @ + 1]]

\* Variant: only the first span is looked at.
traceContainsError_FirstSpanOnly(trace) == trace[1].Error # 0

traceContainsError(trace) == \E i \in 1..Len(trace) : trace[i].Error # 0

\* Variant: the error sampler's decision is dropped from the result.
samplePriorityTrace_PriorityKeepOnly(pt, w) ==
    LET p == PrioritySamplerAdd(w)
    IN IF traceContainsError(pt.Trace)
         THEN LET e == ErrorsScoreSamplerAdd(p.w)
              IN [sampled |-> p.sampled,
                  rate |-> CombineRates(p.rate, e.rate), w |-> e.w]
         ELSE LET x == ExceptionSamplerAdd(p.w)
              IN IF x.sampled
                   THEN [sampled |-> TRUE, rate |-> <<1, 1>>, w |-> x.w]
                   ELSE [sampled |-> p.sampled, rate |-> p.rate, w |-> x.w]

\* Variant: the rates are not combined, the priority rate is returned.
samplePriorityTrace_PriorityRateOnly(pt, w) ==
    LET p == PrioritySamplerAdd(w)
    IN IF traceContainsError(pt.Trace)
         THEN LET e == ErrorsScoreSamplerAdd(p.w)
              IN [sampled |-> e.sampled \/ p.sampled,
                  rate |-> p.rate, w |-> e.w]
         ELSE LET x == ExceptionSamplerAdd(p.w)
              IN IF x.sampled
                   THEN [sampled |-> TRUE, rate |-> <<1, 1>>, w |-> x.w]
                   ELSE [sampled |-> p.sampled, rate |-> p.rate, w |-> x.w]

\* Variant: a hit of the exception sampler keeps the priority rate.
samplePriorityTrace_ExceptionKeepsRate(pt, w) ==
    LET p == PrioritySamplerAdd(w)
    IN IF traceContainsError(pt.Trace)
         THEN LET e == ErrorsScoreSamplerAdd(p.w)
              IN [sampled |-> e.sampled \/ p.sampled,
                  rate |-> CombineRates(p.rate, e.rate), w |-> e.w]
         ELSE LET x == ExceptionSamplerAdd(p.w)
              IN IF x.sampled
                   THEN [sampled |-> TRUE, rate |-> p.rate, w |-> x.w]
                   ELSE [sampled |-> p.sampled, rate |-> p.rate, w |-> x.w]

samplePriorityTrace(pt, w) ==
    LET p == PrioritySamplerAdd(w)
    IN IF traceContainsError(pt.Trace)
         THEN LET e == ErrorsScoreSamplerAdd(p.w)
              IN [sampled |-> e.sampled \/ p.sampled,
                  rate |-> CombineRates(p.rate, e.rate), w |-> e.w]
         ELSE LET x == ExceptionSamplerAdd(p.w)
              IN IF x.sampled
                   THEN [sampled |-> TRUE, rate |-> <<1, 1>>, w |-> x.w]
                   ELSE [sampled |-> p.sampled, rate |-> p.rate, w |-> x.w]

sampleNoPriorityTrace(pt, w) ==
    IF traceContainsError(pt.Trace)
        THEN ErrorsScoreSamplerAdd(w)
        ELSE ScoreSamplerAdd(w)

runSamplers(pt, hasPriority, w) ==
    IF hasPriority THEN samplePriorityTrace(pt, w)
                   ELSE sampleNoPriorityTrace(pt, w)

\* ------------------------------------------------------------------- sample
\* info.TagStats: the counters of the payload's source.
NewTagStats ==
    [SpansReceived |-> 0, SpansDropped |-> 0, TracesFiltered |-> 0,
     SpansFiltered |-> 0, TracesPriorityNone |-> 0, TracesPriorityNeg |-> 0,
     TracesPriority0 |-> 0, TracesPriority1 |-> 0, TracesPriority2 |-> 0,
     EventsExtracted |-> 0, EventsSampled |-> 0]

\* Variant: priority 0 is counted with the negative priorities.
PriorityStat_ZeroAsNegative(priority, hasPriority) ==
    IF hasPriority
        THEN IF priority <= 0 THEN "TracesPriorityNeg"
             ELSE IF priority = 1 THEN "TracesPriority1"
             ELSE "TracesPriority2"
        ELSE "TracesPriorityNone"

\* Variant: every positive priority is counted as priority 1.
PriorityStat_TwoAsOne(priority, hasPriority) ==
    IF hasPriority
        THEN IF priority < 0 THEN "TracesPriorityNeg"
             ELSE IF priority = 0 THEN "TracesPriority0"
             ELSE "TracesPriority1"
        ELSE "TracesPriorityNone"

\* The counter sample chooses for the root's priority.
PriorityStat(priority, hasPriority) ==
    IF hasPriority
        THEN IF priority < 0 THEN "TracesPriorityNeg"
             ELSE IF priority = 0 THEN "TracesPriority0"
             ELSE IF priority = 1 THEN "TracesPriority1"
             ELSE "TracesPriority2"
        ELSE "TracesPriorityNone"

NoRate == <<0, 1>>

\* Variant: the events are extracted only from a trace that is kept.
sample_EventsOnlyWhenKept(ts, pt, w) ==
    LET gp == GetSamplingPriority(pt.Trace[pt.Root])
        priority == gp[1]
        hasPriority == gp[2]
        ts1 == [ts EXCEPT ![PriorityStat(priority, hasPriority)] = @ + 1]
    IN IF priority < 0
         THEN [ts |-> ts1, events |-> <<>>, keep |-> FALSE,
               trace |-> pt.Trace, rate |-> NoRate, w |-> w]
         ELSE LET r == runSamplers(pt, hasPriority, w)
              IN IF ~r.sampled
                   THEN [ts |-> ts1, events |-> <<>>, keep |-> FALSE,
                         trace |-> pt.Trace, rate |-> r.rate, w |-> r.w]
                   ELSE
                     LET trace1 == [pt.Trace EXCEPT
                                      ![pt.Root] = AddGlobalRate(@, r.rate)]
                         ev == EventProcessorProcess(
                                   [pt EXCEPT !.Trace = trace1], r.w)
                     IN [ts |-> [ts1 EXCEPT
                                   !.EventsExtracted = @ + ev.numExtracted,
                                   !.EventsSampled = @ + Len(ev.events)],
                         events |-> ev.events, keep |-> TRUE,
                         trace |-> trace1, rate |-> r.rate, w |-> ev.w]

\* Variant: no early return for a negative priority.
sample_NoNegativeReturn(ts, pt, w) ==
    LET gp == GetSamplingPriority(pt.Trace[pt.Root])
        priority == gp[1]
        hasPriority == gp[2]
        ts1 == [ts EXCEPT ![PriorityStat(priority, hasPriority)] = @ + 1]
        r == runSamplers(pt, hasPriority, w)
        trace1 == IF r.sampled
                    THEN [pt.Trace EXCEPT
                            ![pt.Root] = AddGlobalRate(@, r.rate)]
                    ELSE pt.Trace
        ev == EventProcessorProcess([pt EXCEPT !.Trace = trace1], r.w)
    IN [ts |-> [ts1 EXCEPT !.EventsExtracted = @ + ev.numExtracted,
                           !.EventsSampled = @ + Len(ev.events)],
        events |-> ev.events, keep |-> r.sampled /\ priority >= 0,
        trace |-> trace1, rate |-> r.rate, w |-> ev.w]

\* Agent.sample: the counters, the events, the decision, the trace with the
\* rate set on its root, and the samplers after their calls.
sample(ts, pt, w) ==
    LET gp == GetSamplingPriority(pt.Trace[pt.Root])
        priority == gp[1]
        hasPriority == gp[2]
        ts1 == [ts EXCEPT ![PriorityStat(priority, hasPriority)] = @ + 1]
    IN IF priority < 0
         THEN [ts |-> ts1, events |-> <<>>, keep |-> FALSE,
               trace |-> pt.Trace, rate |-> NoRate, w |-> w]
         ELSE LET r == runSamplers(pt, hasPriority, w)
                  trace1 == IF r.sampled
                              THEN [pt.Trace EXCEPT
                                      ![pt.Root] = AddGlobalRate(@, r.rate)]
                              ELSE pt.Trace
                  ev == EventProcessorProcess(
                            [pt EXCEPT !.Trace = trace1], r.w)
              IN [ts |-> [ts1 EXCEPT
                            !.EventsExtracted = @ + ev.numExtracted,
                            !.EventsSampled = @ + Len(ev.events)],
                  events |-> ev.events, keep |-> r.sampled,
                  trace |-> trace1, rate |-> r.rate, w |-> ev.w]

\* ------------------------------------------------------------------ Process
NewSampledSpans == [Traces |-> <<>>, Events |-> <<>>, Size |-> 0,
                    SpanCount |-> 0]

NoSpan == MkSpan(0, 0, 0, "", 0, EmptyMetrics)

\* Variant: the spans are obfuscated and replaced before the blacklist is
\* asked.
filterTrace_SanitizeFirst(ts, t) ==
    IF Len(t) = 0
      THEN [kind |-> "empty", ts |-> ts, trace |-> t, root |-> 0,
            allowsArg |-> NoSpan]
      ELSE
        LET tracen == Len(t)
            ts1 == [ts EXCEPT !.SpansReceived = @ + tracen]
        IN IF normalizeTrace(t)
             THEN [kind |-> "invalid",
                   ts |-> [ts1 EXCEPT !.SpansDropped = @ + tracen],
                   trace |-> t, root |-> 0, allowsArg |-> NoSpan]
             ELSE
               LET root == GetRoot(t)
                   clean == Replace([i \in 1..Len(t) |->
                                Truncate(Obfuscate(t[i]))])
               IN IF ~Allows(clean[root])
                    THEN [kind |-> "filtered",
                          ts |-> [ts1 EXCEPT !.TracesFiltered = @ + 1,
                                             !.SpansFiltered = @ + tracen],
                          trace |-> clean, root |-> root,
                          allowsArg |-> clean[root]]
                    ELSE [kind |-> "ok", ts |-> ts1, trace |-> clean,
                          root |-> root, allowsArg |-> clean[root]]

\* Variant: a blacklisted trace is counted but the loop does not continue
\* with the next trace.
filterTrace_NoContinue(ts, t) ==
    IF Len(t) = 0
      THEN [kind |-> "empty", ts |-> ts, trace |-> t, root |-> 0,
            allowsArg |-> NoSpan]
      ELSE
        LET tracen == Len(t)
            ts1 == [ts EXCEPT !.SpansReceived = @ + tracen]
        IN IF normalizeTrace(t)
             THEN [kind |-> "invalid",
                   ts |-> [ts1 EXCEPT !.SpansDropped = @ + tracen],
                   trace |-> t, root |-> 0, allowsArg |-> NoSpan]
             ELSE
               LET root == GetRoot(t)
                   ts2 == IF Allows(t[root]) THEN ts1
                          ELSE [ts1 EXCEPT !.TracesFiltered = @ + 1,
                                           !.SpansFiltered = @ + tracen]
               IN [kind |-> "ok", ts |-> ts2,
                   trace |-> Replace([i \in 1..Len(t) |->
                                 Truncate(Obfuscate(t[i]))]),
                   root |-> root, allowsArg |-> t[root]]

\* Variant: a trace failing normalization is dropped without being counted.
filterTrace_DropUncounted(ts, t) ==
    IF Len(t) = 0
      THEN [kind |-> "empty", ts |-> ts, trace |-> t, root |-> 0,
            allowsArg |-> NoSpan]
      ELSE
        LET tracen == Len(t)
            ts1 == [ts EXCEPT !.SpansReceived = @ + tracen]
        IN IF normalizeTrace(t)
             THEN [kind |-> "invalid", ts |-> ts1,
                   trace |-> t, root |-> 0, allowsArg |-> NoSpan]
             ELSE
               LET root == GetRoot(t)
               IN IF ~Allows(t[root])
                    THEN [kind |-> "filtered",
                          ts |-> [ts1 EXCEPT !.TracesFiltered = @ + 1,
                                             !.SpansFiltered = @ + tracen],
                          trace |-> t, root |-> root, allowsArg |-> t[root]]
                    ELSE [kind |-> "ok", ts |-> ts1,
                          trace |-> Replace([i \in 1..Len(t) |->
                                        Truncate(Obfuscate(t[i]))]),
                          root |-> root, allowsArg |-> t[root]]

\* The head of the loop body of Process: the length check, the counters,
\* normalization, the blacklist on the root, then obfuscation, truncation
\* and tag replacement.  kind tells how the trace left this part; allowsArg
\* is the span the blacklist was asked about.
filterTrace(ts, t) ==
    IF Len(t) = 0
      THEN [kind |-> "empty", ts |-> ts, trace |-> t, root |-> 0,
            allowsArg |-> NoSpan]
      ELSE
        LET tracen == Len(t)
            ts1 == [ts EXCEPT !.SpansReceived = @ + tracen]
        IN IF normalizeTrace(t)
             THEN [kind |-> "invalid",
                   ts |-> [ts1 EXCEPT !.SpansDropped = @ + tracen],
                   trace |-> t, root |-> 0, allowsArg |-> NoSpan]
             ELSE
               LET root == GetRoot(t)
               IN IF ~Allows(t[root])
                    THEN [kind |-> "filtered",
                          ts |-> [ts1 EXCEPT !.TracesFiltered = @ + 1,
                                             !.SpansFiltered = @ + tracen],
                          trace |-> t, root |-> root, allowsArg |-> t[root]]
                    ELSE [kind |-> "ok", ts |-> ts1,
                          trace |-> Replace([i \in 1..Len(t) |->
                                        Truncate(Obfuscate(t[i]))]),
                          root |-> root, allowsArg |-> t[root]]

\* Variant: the top-level spans are computed whatever the payload says.
newProcessedTrace_AlwaysTopLevel(t, root, clientComputedTopLevel) ==
    [Trace |-> ComputeTopLevel(t), Root |-> root, Env |-> DefaultEnv,
     topLevelCalls |-> 1]

\* The middle of the loop body: top-level spans are computed unless the
\* client did it, then the ProcessedTrace is built.  topLevelCalls counts
\* the calls of traceutil.ComputeTopLevel.
newProcessedTrace(t, root, clientComputedTopLevel) ==
    IF ~clientComputedTopLevel
      THEN [Trace |-> ComputeTopLevel(t), Root |-> root, Env |-> DefaultEnv,
            topLevelCalls |-> 1]
      ELSE [Trace |-> t, Root |-> root, Env |-> DefaultEnv,
            topLevelCalls |-> 0]

\* Variant: the sublayer values are written on the subtrace roots whatever
\* the sampling decision.
setSublayers_AlwaysOnSpan(t, root, keep) ==
    LET subtraces == ExtractSubtraces(t, root)
        sublayers == [r \in {st.Root : st \in subtraces} |->
                        ComputeSublayers(t,
                            (CHOOSE st \in subtraces : st.Root = r).Trace)]
    IN [Sublayers |-> sublayers,
        trace |-> [i \in 1..Len(t) |->
                      IF i \in DOMAIN sublayers
                        THEN SetSublayersOnSpan(t[i], sublayers[i])
                        ELSE t[i]]]

\* The loop over the subtraces after sampling: the sublayer values of every
\* subtrace go to pt.Sublayers under the subtrace's root, and onto that root
\* span when the trace is kept.
setSublayers(t, root, keep) ==
    LET subtraces == ExtractSubtraces(t, root)
        sublayers == [r \in {st.Root : st \in subtraces} |->
                        ComputeSublayers(t,
                            (CHOOSE st \in subtraces : st.Root = r).Trace)]
    IN [Sublayers |-> sublayers,
        trace |-> IF keep
                    THEN [i \in 1..Len(t) |->
                            IF i \in DOMAIN sublayers
                              THEN SetSublayersOnSpan(t[i], sublayers[i])
                              ELSE t[i]]
                    ELSE t]

\* Variant: only a kept trace gives a stats input.
appendOutputs_StatsOnlyWhenKept(ss, sinputs, idx, t, env, sublayers, events, keep) ==
    LET sinputs1 == IF keep
                      THEN Append(sinputs, [Trace |-> idx, Env |-> env,
                                            Sublayers |-> sublayers,
                                            SublayersOnly |-> FALSE])
                      ELSE sinputs
        ss1 == IF keep
                 THEN [ss EXCEPT !.Traces = Append(@, idx),
                                 !.Size = @ + Msgsize(t),
                                 !.SpanCount = @ + Len(t)]
                 ELSE ss
        ss2 == IF Len(events) > 0
                 THEN [ss1 EXCEPT
                         !.Events = @ \o [k \in 1..Len(events) |->
                                             <<idx, events[k]>>],
                         !.Size = @ + Msgsize(events)]
                 ELSE ss1
    IN [ss |-> ss2, sinputs |-> sinputs1]

\* Variant: the events of a trace are added only when the trace is kept.
appendOutputs_EventsWhenKept(ss, sinputs, idx, t, env, sublayers, events, keep) ==
    LET sinputs1 == Append(sinputs,
                       [Trace |-> idx, Env |-> env, Sublayers |-> sublayers,
                        SublayersOnly |-> FALSE])
        ss1 == IF keep
                 THEN [ss EXCEPT !.Traces = Append(@, idx),
                                 !.Size = @ + Msgsize(t),
                                 !.SpanCount = @ + Len(t)]
                 ELSE ss
        ss2 == IF keep /\ Len(events) > 0
                 THEN [ss1 EXCEPT
                         !.Events = @ \o [k \in 1..Len(events) |->
                                             <<idx, events[k]>>],
                         !.Size = @ + Msgsize(events)]
                 ELSE ss1
    IN [ss |-> ss2, sinputs |-> sinputs1]

\* The tail of the loop body: the stats input of the trace, then its spans
\* when kept and its events are added to the running batch.  idx is the
\* trace's position in the payload.
appendOutputs(ss, sinputs, idx, t, env, sublayers, events, keep) ==
    LET sinputs1 == Append(sinputs,
                       [Trace |-> idx, Env |-> env, Sublayers |-> sublayers,
                        SublayersOnly |-> FALSE])
        ss1 == IF keep
                 THEN [ss EXCEPT !.Traces = Append(@, idx),
                                 !.Size = @ + Msgsize(t),
                                 !.SpanCount = @ + Len(t)]
                 ELSE ss
        ss2 == IF Len(events) > 0
                 THEN [ss1 EXCEPT
                         !.Events = @ \o [k \in 1..Len(events) |->
                                             <<idx, events[k]>>],
                         !.Size = @ + Msgsize(events)]
                 ELSE ss1
    IN [ss |-> ss2, sinputs |-> sinputs1]

\* Variant: the batch is flushed as soon as its size reaches the ceiling.
ExceedsMaxPayloadSize_AtCeiling(size) == size >= MaxPayloadSize

\* The test of the running size after a trace's outputs have been added.
ExceedsMaxPayloadSize(size) == size > MaxPayloadSize

\* Variant: after the loop only a batch over the ceiling is sent.
BatchNotEmpty_OverCeiling(size) == size > MaxPayloadSize

\* Variant: after the loop the running batch is sent whatever its size.
BatchNotEmpty_Always(size) == size >= 0

\* The test of the running size after the loop.
BatchNotEmpty(size) == size > 0

\* ------------------------------------------------------------- ProcessStats
\* The measures of stats.Count and the language of the client.
HITS == "hits"
ERRORS == "errors"
DURATION == "duration"
Lang == "go"

\* Hits, Errors and Duration of the client's groups.
ClientCounts == {<<10, 2, 500>>, <<1, 0, 30>>}

\* pb.ClientGroupedStats, pb.ClientStatsBucket and pb.ClientStatsPayload.
MkGroupedStats(svc, res, code, c) ==
    [Service |-> svc, Name |-> "http.request", Resource |-> res,
     HTTPStatusCode |-> code, Hits |-> c[1], Errors |-> c[2],
     Duration |-> c[3]]
ClientGroupedStats ==
    {MkGroupedStats(svc, res, code, c) :
        svc \in {"S", ""}, res \in {"R", "SELECT 42"}, code \in {0, 404},
        c \in ClientCounts}
MkStatsBucket(stats) == [Start |-> 100, Duration |-> 10, Stats |-> stats]
MkStatsBucketAt(start, duration, stats) ==
    [Start |-> start, Duration |-> duration, Stats |-> stats]
MkStatsPayload(env, buckets) ==
    [Hostname |-> "host", Env |-> env, Version |-> "v1", Stats |-> buckets]

GroupR == MkGroupedStats("S", "R", 404, <<10, 2, 500>>)
GroupQ == MkGroupedStats("S", "SELECT 42", 0, <<1, 0, 30>>)
GroupR2 == MkGroupedStats("S", "R", 404, <<1, 0, 30>>)

\* The payloads ProcessStats is called with: one bucket of one group, for
\* every group and with or without env; no bucket; a bucket of two groups;
\* two buckets; an empty bucket followed by a bucket; a bucket with the same
\* group twice; a bucket of two groups of one name, resource, service and
\* status code; two buckets of different Start and Duration.
ClientStatsPayloads ==
    {MkStatsPayload(env, <<MkStatsBucket(<<b>>)>>) :
        env \in {"", "Prod"}, b \in ClientGroupedStats}
    \cup {MkStatsPayload("", <<>>),
          MkStatsPayload("", <<MkStatsBucket(<<GroupR, GroupQ>>)>>),
          MkStatsPayload("", <<MkStatsBucket(<<GroupR>>),
                               MkStatsBucket(<<GroupQ>>)>>),
          MkStatsPayload("", <<MkStatsBucket(<<>>),
                               MkStatsBucket(<<GroupQ>>)>>),
          MkStatsPayload("", <<MkStatsBucket(<<GroupR, GroupR>>)>>),
          MkStatsPayload("", <<MkStatsBucket(<<GroupR, GroupR2>>)>>),
          MkStatsPayload("", <<MkStatsBucketAt(100, 10, <<GroupR, GroupQ>>),
                               MkStatsBucketAt(200, 20, <<GroupR2>>)>>)}

\* The payloads of the runs where ProcessStats stands beside Process.
QueueStatsPayloads ==
    {MkStatsPayload("", <<MkStatsBucket(<<GroupR>>)>>),
     MkStatsPayload("Prod", <<MkStatsBucket(<<GroupQ>>)>>)}

\* traceutil.NormalizeTag: lower case.
NormalizeTag(tag) == IF tag = "Prod" THEN "prod" ELSE tag

\* normalizeStatsGroup: an empty service gets the language's default name.
normalizeStatsGroup(b, lang) ==
    [b EXCEPT !.Service = IF @ = "" THEN "unnamed-" \o lang \o "-service"
                                    ELSE @]

\* obfuscator.ObfuscateStatsGroup and Replacer.ReplaceStatsGroup: what the
\* obfuscator and the replacer do to the resource of a span.
ObfuscateStatsGroup(b) ==
    [b EXCEPT !.Resource = IF @ = "SELECT 42" THEN "SELECT ?" ELSE @]
ReplaceStatsGroup(b) ==
    [b EXCEPT !.Resource = IF @ = "GET /u/7" THEN "GET /u/?" ELSE @]

\* strconv.Itoa.
Digit(d) == <<"0", "1", "2", "3", "4", "5", "6", "7", "8", "9">>[d + 1]
RECURSIVE Itoa(_)
Itoa(n) == IF n < 10 THEN Digit(n) ELSE Itoa(n \div 10) \o Digit(n % 10)

\* float64(uint64): exact below 2^53, which the values of the model are.
Float64(n) == n

\* The tag keys of the model in the order of sort.Strings.
TagKeyOrder == <<"http.status_code", "version">>
SortStrings(keys) ==
    LET Among(k) == \E i \in 1..Len(keys) : keys[i] = k
    IN SelectSeq(TagKeyOrder, Among)

\* The order in which a range over the map meets its keys: one of the
\* orders the runtime may take.
IterationOrder(tags, rev) ==
    LET Has(k) == k \in DOMAIN tags
        keys == SelectSeq(TagKeyOrder, Has)
    IN IF rev THEN [i \in 1..Len(keys) |-> keys[Len(keys) + 1 - i]]
              ELSE keys

RECURSIVE JoinTags(_, _, _)
JoinTags(tags, keys, n) ==
    IF n = 0 THEN ""
    ELSE JoinTags(tags, keys, n - 1) \o "," \o keys[n] \o ":" \o tags[keys[n]]

\* The grain and the tag set written for the tags taken in the order keys.
GrainOver(env, resource, service, tags, keys) ==
    [grain |-> "env:" \o env \o ",resource:" \o resource \o ",service:"
                  \o service \o JoinTags(tags, keys, Len(keys)),
     tagset |-> <<<<"env", env>>, <<"resource", resource>>,
                  <<"service", service>>>>
                \o [i \in 1..Len(keys) |-> <<keys[i], tags[keys[i]]>>]]

\* stats.AssembleGrain: the keys of the map, met in the order ranged, are
\* sorted before the grain is written.
AssembleGrain(env, resource, service, tags, ranged) ==
    GrainOver(env, resource, service, tags, SortStrings(ranged))

\* stats.GrainKey.
GrainKey(name, measure, aggr) == name \o "|" \o measure \o "|" \o aggr

\* m[k] = v on a Go map.
MapPut(m, k, v) == [x \in DOMAIN m \cup {k} |-> IF x = k THEN v ELSE m[x]]

\* The tags of a group: the version, and the status code when it is set.
statsTags(version, b) ==
    [k \in {"version"} \cup (IF b.HTTPStatusCode # 0
                               THEN {"http.status_code"} ELSE {}) |->
        IF k = "version" THEN version ELSE Itoa(b.HTTPStatusCode)]

\* One stats.Count of a group.
statsCount(b, measure, value, g) ==
    [Key |-> GrainKey(b.Name, measure, g.grain), Name |-> b.Name,
     Measure |-> measure, TagSet |-> g.tagset, TopLevel |-> Float64(b.Hits),
     Value |-> Float64(value)]

\* Variant: the count of errors takes its value from the hits.
statsBucket_ErrorsFromHits(version, env, group, b0, lang, rev) ==
    LET b == ReplaceStatsGroup(ObfuscateStatsGroup(
                 normalizeStatsGroup(b0, lang)))
        tags == statsTags(version, b)
        g == AssembleGrain(env, b.Resource, b.Service, tags,
                           IterationOrder(tags, rev))
        hits == statsCount(b, HITS, b.Hits, g)
        errors == statsCount(b, ERRORS, b.Hits, g)
        duration == statsCount(b, DURATION, b.Duration, g)
    IN [Start |-> group.Start, Duration |-> group.Duration,
        Counts |-> MapPut(MapPut(MapPut(<<>>, hits.Key, hits),
                                 errors.Key, errors),
                          duration.Key, duration)]

\* Variant: the grain is written from the tags in the order the map is
\* ranged.
statsBucket_TagsAsRanged(version, env, group, b0, lang, rev) ==
    LET b == ReplaceStatsGroup(ObfuscateStatsGroup(
                 normalizeStatsGroup(b0, lang)))
        tags == statsTags(version, b)
        g == GrainOver(env, b.Resource, b.Service, tags,
                       IterationOrder(tags, rev))
        hits == statsCount(b, HITS, b.Hits, g)
        errors == statsCount(b, ERRORS, b.Errors, g)
        duration == statsCount(b, DURATION, b.Duration, g)
    IN [Start |-> group.Start, Duration |-> group.Duration,
        Counts |-> MapPut(MapPut(MapPut(<<>>, hits.Key, hits),
                                 errors.Key, errors),
                          duration.Key, duration)]

\* The body of the inner loop of ProcessStats: the group b0 of the bucket
\* group is normalized, obfuscated and replaced, and gives a stats.Bucket of
\* three counts under the keys of its grain.  rev tells how the tags map is
\* ranged.
statsBucket(version, env, group, b0, lang, rev) ==
    LET b == ReplaceStatsGroup(ObfuscateStatsGroup(
                 normalizeStatsGroup(b0, lang)))
        tags == statsTags(version, b)
        g == AssembleGrain(env, b.Resource, b.Service, tags,
                           IterationOrder(tags, rev))
        hits == statsCount(b, HITS, b.Hits, g)
        errors == statsCount(b, ERRORS, b.Errors, g)
        duration == statsCount(b, DURATION, b.Duration, g)
    IN [Start |-> group.Start, Duration |-> group.Duration,
        Counts |-> MapPut(MapPut(MapPut(<<>>, hits.Key, hits),
                                 errors.Key, errors),
                          duration.Key, duration)]

\* The groups of the first n buckets of the payload, as <<bucket, group>>
\* positions in the order the loops meet them.
RECURSIVE GroupsOf(_, _)
GroupsOf(p, n) ==
    IF n = 0 THEN <<>>
    ELSE GroupsOf(p, n - 1)
            \o [k \in 1..Len(p.Stats[n].Stats) |-> <<n, k>>]

\* Variant: one output bucket per client bucket, the counts of its groups
\* written into one map.
statsPayload_BucketPerClientBucket(p, lang, revs) ==
    LET env == NormalizeTag(IF p.Env = "" THEN DefaultEnv ELSE p.Env)
        groups == GroupsOf(p, Len(p.Stats))
        of(i) == statsBucket(p.Version, env, p.Stats[groups[i][1]],
                             p.Stats[groups[i][1]].Stats[groups[i][2]],
                             lang, revs[i]).Counts
        in(n) == {i \in 1..Len(groups) : groups[i][1] = n}
        last(n, k) == CHOOSE i \in in(n) :
                         /\ k \in DOMAIN of(i)
                         /\ \A j \in in(n) : j > i => k \notin DOMAIN of(j)
    IN [HostName |-> p.Hostname, Env |-> env,
        Stats |-> [n \in 1..Len(p.Stats) |->
                      [Start |-> p.Stats[n].Start,
                       Duration |-> p.Stats[n].Duration,
                       Counts |-> [k \in UNION {DOMAIN of(i) : i \in in(n)}
                                     |-> of(last(n, k))[k]]]]]

\* ProcessStats up to its send: the stats.Payload built from the client's
\* payload p; revs tells for each group how its tags map is ranged.
statsPayload(p, lang, revs) ==
    LET env == NormalizeTag(IF p.Env = "" THEN DefaultEnv ELSE p.Env)
        groups == GroupsOf(p, Len(p.Stats))
    IN [HostName |-> p.Hostname, Env |-> env,
        Stats |-> [i \in 1..Len(groups) |->
                      statsBucket(p.Version, env, p.Stats[groups[i][1]],
                                  p.Stats[groups[i][1]].Stats[groups[i][2]],
                                  lang, revs[i])]]

\* ----------------------------------------------------------------- protobuf
\* The wire form of pb.ClientStatsPayload.  A []byte and a string are
\* sequences of bytes; the numbers of the model stay below 2^28, where the
\* arithmetic of uint32, uint64 and int agrees with that of the integers.
ErrIntOverflowStats == "proto: integer overflow"
ErrUnexpectedEOF == "unexpected EOF"
ErrEndGroup == "proto: wiretype end group for non-group"
ErrIllegalTag == "proto: illegal tag"
ErrWrongWireType == "proto: wrong wireType"
ErrIllegalWireType == "proto: illegal wireType"
ErrIndexOutOfRange == "panic: index out of range"

\* Variant: the low seven bits of every byte are written without the
\* continuation bit.
RECURSIVE encodeVarintStats_NoContinuation(_)
encodeVarintStats_NoContinuation(v) ==
    IF v >= 128 THEN <<v % 128>> \o encodeVarintStats_NoContinuation(v \div 128)
    ELSE <<v>>

\* encodeVarintStats: the bytes written for v, low seven bits first.
RECURSIVE encodeVarintStats(_)
encodeVarintStats(v) ==
    IF v >= 128 THEN <<(v % 128) + 128>> \o encodeVarintStats(v \div 128)
    ELSE <<v>>

\* sovStats: the number of bytes of the varint of x.
RECURSIVE sovStats(_)
sovStats(x) == IF x \div 128 = 0 THEN 1 ELSE 1 + sovStats(x \div 128)

\* What MarshalTo writes and what Size counts for a string field, for a
\* varint field and for the message at the end of a repeated field.
stringField(tag, s) ==
    IF Len(s) > 0 THEN <<tag>> \o encodeVarintStats(Len(s)) \o s ELSE <<>>
varintField(tag, v) ==
    IF v # 0 THEN <<tag>> \o encodeVarintStats(v) ELSE <<>>
messageField(tag, size, written) ==
    <<tag>> \o encodeVarintStats(size) \o written
stringSize(s) == IF Len(s) > 0 THEN 1 + Len(s) + sovStats(Len(s)) ELSE 0
varintSize(v) == IF v # 0 THEN 1 + sovStats(v) ELSE 0
messageSize(l) == 1 + l + sovStats(l)

\* The bytes of a sequence of byte sequences, one after the other, and the
\* sum of a sequence of numbers.
RECURSIVE Concat(_)
Concat(ss) == IF ss = <<>> THEN <<>> ELSE Head(ss) \o Concat(Tail(ss))
RECURSIVE Sum(_)
Sum(ns) == IF ns = <<>> THEN 0 ELSE Head(ns) + Sum(Tail(ns))

ClientGroupedStats_Size(m) ==
    stringSize(m.Service) + stringSize(m.Name) + stringSize(m.Resource)
      + varintSize(m.HTTPStatusCode) + stringSize(m.Type)
      + stringSize(m.DBType) + varintSize(m.Hits) + varintSize(m.Errors)
      + varintSize(m.Duration)

ClientStatsBucket_Size(m) ==
    varintSize(m.Start) + varintSize(m.Duration)
      + Sum([k \in DOMAIN m.Stats |->
               messageSize(ClientGroupedStats_Size(m.Stats[k]))])

ClientStatsPayload_Size(m) ==
    stringSize(m.Hostname) + stringSize(m.Env) + stringSize(m.Version)
      + Sum([k \in DOMAIN m.Stats |->
               messageSize(ClientStatsBucket_Size(m.Stats[k]))])

ClientGroupedStats_MarshalTo(m) ==
    stringField(10, m.Service) \o stringField(18, m.Name)
      \o stringField(26, m.Resource) \o varintField(32, m.HTTPStatusCode)
      \o stringField(42, m.Type) \o stringField(50, m.DBType)
      \o varintField(56, m.Hits) \o varintField(64, m.Errors)
      \o varintField(72, m.Duration)

ClientStatsBucket_MarshalTo(m) ==
    varintField(8, m.Start) \o varintField(16, m.Duration)
      \o Concat([k \in DOMAIN m.Stats |->
                   messageField(26, ClientGroupedStats_Size(m.Stats[k]),
                                ClientGroupedStats_MarshalTo(m.Stats[k]))])

ClientStatsPayload_MarshalTo(m) ==
    stringField(10, m.Hostname) \o stringField(18, m.Env)
      \o stringField(26, m.Version)
      \o Concat([k \in DOMAIN m.Stats |->
                   messageField(34, ClientStatsBucket_Size(m.Stats[k]),
                                ClientStatsBucket_MarshalTo(m.Stats[k]))])

\* Marshal: MarshalTo writes into a slice of Size() bytes, which panics when
\* it writes past the end, and the bytes written are returned.
ClientStatsPayload_Marshal(m) ==
    LET written == ClientStatsPayload_MarshalTo(m)
    IN IF Len(written) > ClientStatsPayload_Size(m)
         THEN [err |-> ErrIndexOutOfRange, data |-> <<>>]
         ELSE [err |-> "", data |-> written]

\* The loop that reads a varint from data at position i (from 1): the value
\* and the position after it, or the error.
RECURSIVE readVarint(_, _, _, _)
readVarint(data, i, shift, acc) ==
    IF shift >= 64 THEN [err |-> ErrIntOverflowStats, v |-> 0, i |-> i]
    ELSE IF i > Len(data) THEN [err |-> ErrUnexpectedEOF, v |-> 0, i |-> i]
    ELSE LET b == data[i]
             v == acc + (b % 128) * 2 ^ shift
         IN IF b < 128 THEN [err |-> "", v |-> v, i |-> i + 1]
            ELSE readVarint(data, i + 1, shift + 7, v)

\* The length of a string or of a nested message and the check of postIndex
\* against the end of data: the bytes lie at from..to and i follows them.
readLength(data, i) ==
    LET r == readVarint(data, i, 0, 0)
    IN IF r.err # "" THEN [err |-> r.err, from |-> 0, to |-> 0, i |-> i]
       ELSE IF r.i + r.v - 1 > Len(data)
         THEN [err |-> ErrUnexpectedEOF, from |-> 0, to |-> 0, i |-> i]
         ELSE [err |-> "", from |-> r.i, to |-> r.i + r.v - 1,
               i |-> r.i + r.v]

\* skipStats: the number of bytes of the field at the head of data.
RECURSIVE skipStats(_)
RECURSIVE skipGroup(_, _)
skipStats(data) ==
    LET w == readVarint(data, 1, 0, 0)
        wireType == w.v % 8
    IN IF w.err # "" THEN [err |-> w.err, n |-> 0]
       ELSE CASE wireType = 0 ->
                   LET r == readVarint(data, w.i, 0, 0)
                   IN IF r.err # "" THEN [err |-> r.err, n |-> 0]
                      ELSE [err |-> "", n |-> r.i - 1]
              [] wireType = 1 -> [err |-> "", n |-> w.i - 1 + 8]
              [] wireType = 2 ->
                   LET r == readVarint(data, w.i, 0, 0)
                   IN IF r.err # "" THEN [err |-> r.err, n |-> 0]
                      ELSE [err |-> "", n |-> r.i - 1 + r.v]
              [] wireType = 3 -> skipGroup(data, w.i)
              [] wireType = 4 -> [err |-> "", n |-> w.i - 1]
              [] wireType = 5 -> [err |-> "", n |-> w.i - 1 + 4]
              [] OTHER -> [err |-> ErrIllegalWireType, n |-> 0]
skipGroup(data, start) ==
    LET w == readVarint(data, start, 0, 0)
    IN IF w.err # "" THEN [err |-> w.err, n |-> 0]
       ELSE IF w.v % 8 = 4 THEN [err |-> "", n |-> w.i - 1]
       ELSE LET next == skipStats(SubSeq(data, start, Len(data)))
            IN IF next.err # "" THEN [err |-> next.err, n |-> 0]
               ELSE skipGroup(data, start + next.n)

\* The default case of the three Unmarshal: the position after the skipped
\* field.
skipField(data, i) ==
    LET k == skipStats(SubSeq(data, i, Len(data)))
    IN IF k.err # "" THEN [err |-> k.err, i |-> i]
       ELSE IF i - 1 + k.n > Len(data)
         THEN [err |-> ErrUnexpectedEOF, i |-> i]
         ELSE [err |-> "", i |-> i + k.n]

\* The fields of the three messages by the number of their case in
\* Unmarshal.
GroupedStrings ==
    [n \in {1, 2, 3, 5, 6} |->
        <<"Service", "Name", "Resource", "", "Type", "DBType">>[n]]
GroupedVarints ==
    [n \in {4, 7, 8, 9} |->
        <<"", "", "", "HTTPStatusCode", "", "", "Hits", "Errors",
          "Duration">>[n]]
BucketVarints == [n \in {1, 2} |-> <<"Start", "Duration">>[n]]
PayloadStrings == [n \in {1, 2, 3} |-> <<"Hostname", "Env", "Version">>[n]]

NewClientGroupedStats ==
    [Service |-> <<>>, Name |-> <<>>, Resource |-> <<>>,
     HTTPStatusCode |-> 0, Type |-> <<>>, DBType |-> <<>>, Hits |-> 0,
     Errors |-> 0, Duration |-> 0]
NewClientStatsBucket == [Start |-> 0, Duration |-> 0, Stats |-> <<>>]
NewClientStatsPayload ==
    [Hostname |-> <<>>, Env |-> <<>>, Version |-> <<>>, Stats |-> <<>>]

\* (*ClientGroupedStats).Unmarshal from position i on, on the message m.
RECURSIVE ClientGroupedStats_Unmarshal(_, _, _)
ClientGroupedStats_Unmarshal(data, i, m) ==
    IF i > Len(data) THEN [err |-> "", m |-> m]
    ELSE
      LET w == readVarint(data, i, 0, 0)
          fieldNum == w.v \div 8
          wireType == w.v % 8
      IN IF w.err # "" THEN [err |-> w.err, m |-> m]
         ELSE IF wireType = 4 THEN [err |-> ErrEndGroup, m |-> m]
         ELSE IF fieldNum <= 0 THEN [err |-> ErrIllegalTag, m |-> m]
         ELSE IF fieldNum \in DOMAIN GroupedStrings
           THEN IF wireType # 2 THEN [err |-> ErrWrongWireType, m |-> m]
                ELSE LET s == readLength(data, w.i)
                     IN IF s.err # "" THEN [err |-> s.err, m |-> m]
                        ELSE ClientGroupedStats_Unmarshal(data, s.i,
                               [m EXCEPT ![GroupedStrings[fieldNum]] =
                                            SubSeq(data, s.from, s.to)])
         ELSE IF fieldNum \in DOMAIN GroupedVarints
           THEN IF wireType # 0 THEN [err |-> ErrWrongWireType, m |-> m]
                ELSE LET r == readVarint(data, w.i, 0, 0)
                     IN IF r.err # "" THEN [err |-> r.err, m |-> m]
                        ELSE ClientGroupedStats_Unmarshal(data, r.i,
                               [m EXCEPT ![GroupedVarints[fieldNum]] = r.v])
         ELSE LET k == skipField(data, i)
              IN IF k.err # "" THEN [err |-> k.err, m |-> m]
                 ELSE ClientGroupedStats_Unmarshal(data, k.i, m)

\* (*ClientStatsBucket).Unmarshal from position i on, on the message m.
RECURSIVE ClientStatsBucket_Unmarshal(_, _, _)
ClientStatsBucket_Unmarshal(data, i, m) ==
    IF i > Len(data) THEN [err |-> "", m |-> m]
    ELSE
      LET w == readVarint(data, i, 0, 0)
          fieldNum == w.v \div 8
          wireType == w.v % 8
      IN IF w.err # "" THEN [err |-> w.err, m |-> m]
         ELSE IF wireType = 4 THEN [err |-> ErrEndGroup, m |-> m]
         ELSE IF fieldNum <= 0 THEN [err |-> ErrIllegalTag, m |-> m]
         ELSE IF fieldNum \in DOMAIN BucketVarints
           THEN IF wireType # 0 THEN [err |-> ErrWrongWireType, m |-> m]
                ELSE LET r == readVarint(data, w.i, 0, 0)
                     IN IF r.err # "" THEN [err |-> r.err, m |-> m]
                        ELSE ClientStatsBucket_Unmarshal(data, r.i,
                               [m EXCEPT ![BucketVarints[fieldNum]] = r.v])
         ELSE IF fieldNum = 3
           THEN IF wireType # 2 THEN [err |-> ErrWrongWireType, m |-> m]
                ELSE LET s == readLength(data, w.i)
                         sub == ClientGroupedStats_Unmarshal(
                                    SubSeq(data, s.from, s.to), 1,
                                    NewClientGroupedStats)
                         m1 == [m EXCEPT !.Stats = Append(@, sub.m)]
                     IN IF s.err # "" THEN [err |-> s.err, m |-> m]
                        ELSE IF sub.err # "" THEN [err |-> sub.err, m |-> m1]
                        ELSE ClientStatsBucket_Unmarshal(data, s.i, m1)
         ELSE LET k == skipField(data, i)
              IN IF k.err # "" THEN [err |-> k.err, m |-> m]
                 ELSE ClientStatsBucket_Unmarshal(data, k.i, m)

\* (*ClientStatsPayload).Unmarshal from position i on, on the message m.
RECURSIVE ClientStatsPayload_Unmarshal(_, _, _)
ClientStatsPayload_Unmarshal(data, i, m) ==
    IF i > Len(data) THEN [err |-> "", m |-> m]
    ELSE
      LET w == readVarint(data, i, 0, 0)
          fieldNum == w.v \div 8
          wireType == w.v % 8
      IN IF w.err # "" THEN [err |-> w.err, m |-> m]
         ELSE IF wireType = 4 THEN [err |-> ErrEndGroup, m |-> m]
         ELSE IF fieldNum <= 0 THEN [err |-> ErrIllegalTag, m |-> m]
         ELSE IF fieldNum \in DOMAIN PayloadStrings
           THEN IF wireType # 2 THEN [err |-> ErrWrongWireType, m |-> m]
                ELSE LET s == readLength(data, w.i)
                     IN IF s.err # "" THEN [err |-> s.err, m |-> m]
                        ELSE ClientStatsPayload_Unmarshal(data, s.i,
                               [m EXCEPT ![PayloadStrings[fieldNum]] =
                                            SubSeq(data, s.from, s.to)])
         ELSE IF fieldNum = 4
           THEN IF wireType # 2 THEN [err |-> ErrWrongWireType, m |-> m]
                ELSE LET s == readLength(data, w.i)
                         sub == ClientStatsBucket_Unmarshal(
                                    SubSeq(data, s.from, s.to), 1,
                                    NewClientStatsBucket)
                         m1 == [m EXCEPT !.Stats = Append(@, sub.m)]
                     IN IF s.err # "" THEN [err |-> s.err, m |-> m]
                        ELSE IF sub.err # "" THEN [err |-> sub.err, m |-> m1]
                        ELSE ClientStatsPayload_Unmarshal(data, s.i, m1)
         ELSE LET k == skipField(data, i)
              IN IF k.err # "" THEN [err |-> k.err, m |-> m]
                 ELSE ClientStatsPayload_Unmarshal(data, k.i, m)

\* The strings of the messages, as bytes: "s", "na", ... and a host name of
\* more than 127 bytes, whose length takes two bytes on the wire.
LongName == [k \in 1..130 |-> 97]

\* The groups, the buckets and the heads (Hostname, Env, Version) of the
\* payloads that are marshalled.
PbFullGroup ==
    [Service |-> <<115>>, Name |-> <<110, 97>>, Resource |-> <<114>>,
     HTTPStatusCode |-> 404, Type |-> <<116>>, DBType |-> <<100>>,
     Hits |-> 300, Errors |-> 1, Duration |-> 16384]
PbSparseGroup ==
    [Service |-> <<>>, Name |-> <<110>>, Resource |-> <<>>,
     HTTPStatusCode |-> 0, Type |-> <<>>, DBType |-> <<100, 98>>,
     Hits |-> 127, Errors |-> 0, Duration |-> 128]
PbGroups == {NewClientGroupedStats, PbFullGroup, PbSparseGroup}
PbBuckets ==
    {NewClientStatsBucket,
     [Start |-> 300, Duration |-> 16384, Stats |-> <<PbFullGroup>>],
     [Start |-> 1, Duration |-> 0, Stats |-> <<NewClientGroupedStats>>],
     [Start |-> 0, Duration |-> 128,
      Stats |-> <<PbSparseGroup, PbFullGroup>>]}
PbHeads ==
    {<<<<>>, <<>>, <<>>>>, <<<<104>>, <<101, 110>>, <<118>>>>,
     <<LongName, <<>>, <<118, 49>>>>}
SeqsUpTo(S, n) == UNION {[1..k -> S] : k \in 0..n}

\* The payloads: up to MaxBuckets buckets of PbBuckets, or one bucket of up
\* to MaxGroups groups of PbGroups, under each head.
PbPayloads ==
    {[Hostname |-> h[1], Env |-> h[2], Version |-> h[3], Stats |-> bs] :
        h \in PbHeads, bs \in SeqsUpTo(PbBuckets, MaxBuckets)}
    \cup
    {[Hostname |-> h[1], Env |-> h[2], Version |-> h[3],
      Stats |-> <<[Start |-> t[1], Duration |-> t[2], Stats |-> gs]>>] :
        h \in PbHeads, t \in {<<0, 0>>, <<300, 16384>>},
        gs \in SeqsUpTo(PbGroups, MaxGroups)}

\* -------------------------------------------------------------------- state
VARIABLES
    pc,             \* position of the worker in work/Process
    traces,         \* traces received so far
    ntraces,        \* len(p.Traces) of the payload in progress
    idx,            \* position in p.Traces of the trace at hand
    ClientComputedTopLevel, \* p.ClientComputedTopLevel of the payload
    ts,             \* p.Source, the TagStats of the payload's source
    ss,             \* the running batch of sampled spans
    sinputs,        \* the stats inputs gathered for the payload
    TraceWriterIn,  \* a.TraceWriter.In
    ConcentratorIn, \* a.Concentrator.In
    passed,         \* positions of the traces that passed the blacklist
    kept,           \* positions of the traces the samplers kept
    nsampled,       \* number of calls of sample so far
    statsSent,      \* the slice sent to the concentrator for this payload
    cur,            \* the locals of the loop iteration in progress
    batches,        \* the batches handed to a.TraceWriter.In for this payload
    grew,           \* per trace of the payload: what it added to the batch
    In,             \* a.In, the queue of payloads between receiver and workers
    inClosed,       \* a.In has been closed
    ctxDone,        \* a.ctx has been cancelled
    started,        \* the components Run has started, in order
    stopped,        \* the components loop has stopped, in order
    runPc,          \* position of the goroutine of Run and loop
    wk,             \* per worker: its position in work and its payload
    produced,       \* number of payloads the receiver has put on a.In
    ndeq,           \* per payload: how many times it was taken from a.In
    lateAdd,        \* the samplers last asked by Process after their Stop
    OutStats,       \* a.OutStats
    statsPc,        \* position of the caller of ProcessStats
    statsIn,        \* the payload ProcessStats was called with
    out,            \* the stats.Payload ProcessStats has built
    cw,             \* per counting worker: its position and the adds to come
    made,           \* per counter: the sum of the increments made so far
    ncount,         \* number of payloads the counting workers have taken
    pbPc,           \* position of the caller of Marshal and Unmarshal
    pbMsg,          \* the message Marshal was called on
    pbData,         \* what Marshal returned
    pbOut           \* what Unmarshal returned and the message it filled

\* the payload in progress, the observers of the run, the channels
payloadVars == <<traces, ntraces, idx, ClientComputedTopLevel>>
historyVars == <<passed, kept, nsampled, statsSent>>
chanVars == <<TraceWriterIn, ConcentratorIn>>
outVars == <<batches, grew>>

\* the state of Run, loop and the workers
lifeVars == <<In, inClosed, ctxDone, started, stopped, runPc, wk, produced,
              ndeq, lateAdd>>

\* the state of one call of Process
processVars == <<pc, payloadVars, ts, ss, sinputs, historyVars, cur, outVars>>

\* the state of a call of ProcessStats, and of the workers that count
statsVars == <<OutStats, statsPc, statsIn, out>>
countVars == <<cw, made, ncount>>
pbVars == <<pbPc, pbMsg, pbData, pbOut>>
otherVars == <<statsVars, countVars, pbVars>>

vars == <<processVars, chanVars, lifeVars, otherVars>>

\* What a sampler that is not asked would have answered is immaterial: the
\* answers of the samplers a trace does not reach are left at this value.
DefaultOracle ==
    [priority |-> <<FALSE, <<1, 2>>>>, errors |-> <<FALSE, <<1, 2>>>>,
     score |-> <<FALSE, <<1, 2>>>>, exception |-> FALSE,
     events |-> <<0, 0>>]

OraclesFor(calls) ==
    [priority : IF calls.Priority > 0 THEN SamplerResults
                                      ELSE {DefaultOracle.priority},
     errors : IF calls.Errors > 0 THEN SamplerResults
                                  ELSE {DefaultOracle.errors},
     score : IF calls.Score > 0 THEN SamplerResults
                                ELSE {DefaultOracle.score},
     exception : IF calls.Exception > 0 THEN BOOLEAN ELSE {FALSE},
     events : IF calls.Events > 0 THEN EventResults ELSE {<<0, 0>>}]

NoCur ==
    [kind |-> "none", raw |-> <<>>, allowsArg |-> NoSpan, trace |-> <<>>,
     root |-> 0, calls |-> NoCalls, answers |-> DefaultOracle,
     keep |-> FALSE, rate |-> NoRate, events |-> <<>>,
     topLevelCalls |-> 0, pre |-> <<>>, sampled |-> <<>>,
     sublayers |-> <<>>]

\* ProcessStats is not running: no payload in, none built.
NoStatsIn == [Hostname |-> "", Env |-> "", Version |-> "", Stats |-> <<>>]
NoOut == [HostName |-> "", Env |-> "", Stats |-> <<>>]

\* A worker that is not inside Process.
\* Nothing marshalled, nothing unmarshalled.
NoData == [err |-> "", data |-> <<>>]
NoUnmarshal == [err |-> "", m |-> NewClientStatsPayload]

IdleCounter == [pc |-> "idle", plan |-> <<>>, read |-> 0]

\* A worker of the pool before work has been started for it.
IdleWorker == [pc |-> "none", p |-> 0, late |-> FALSE]

\* The component has been stopped by loop.
IsStopped(c) == \E i \in DOMAIN stopped : stopped[i] = c

Init ==
    /\ pc = "idle"
    /\ traces = 0
    /\ ntraces = 0
    /\ idx = 0
    /\ ClientComputedTopLevel = FALSE
    /\ ts = NewTagStats
    /\ ss = NewSampledSpans
    /\ sinputs = <<>>
    /\ TraceWriterIn = <<>>
    /\ ConcentratorIn = <<>>
    /\ passed = {}
    /\ kept = {}
    /\ nsampled = 0
    /\ statsSent = <<>>
    /\ cur = NoCur
    /\ batches = <<>>
    /\ grew = <<>>
    /\ In = <<>>
    /\ inClosed = FALSE
    /\ ctxDone = FALSE
    /\ started = <<>>
    /\ stopped = <<>>
    /\ runPc = "start"
    /\ wk = [w \in Workers |-> IdleWorker]
    /\ produced = 0
    /\ ndeq = [p \in 1..MaxPayloads |-> 0]
    /\ lateAdd = {}
    /\ OutStats = <<>>
    /\ statsPc = "idle"
    /\ statsIn = NoStatsIn
    /\ out = NoOut
    /\ cw = [w \in Workers |-> IdleCounter]
    /\ made = NewTagStats
    /\ ncount = 0
    /\ pbPc = "idle"
    /\ pbMsg = NewClientStatsPayload
    /\ pbData = NoData
    /\ pbOut = NoUnmarshal

\* A worker takes a payload of n traces from a.In and enters Process, which
\* returns at once for an empty payload.  A run handles at most budget
\* traces; Flags are the values of p.ClientComputedTopLevel it meets.
ReceiveOf(budget, Flags) ==
    /\ pc = "idle"
    /\ \E n \in 0..MaxTraces, flag \in Flags :
          /\ traces + n <= budget
          /\ IF n = 0
               THEN UNCHANGED <<pc, payloadVars, ss, sinputs, historyVars,
                                cur, outVars>>
               ELSE /\ traces' = traces + n
                    /\ ntraces' = n
                    /\ pc' = "loop"
                    /\ idx' = 0
                    /\ ClientComputedTopLevel' = flag
                    /\ ss' = NewSampledSpans
                    /\ sinputs' = <<>>
                    /\ passed' = {}
                    /\ kept' = {}
                    /\ statsSent' = <<>>
                    /\ cur' = NoCur
                    /\ batches' = <<>>
                    /\ grew' = <<>>
                    /\ UNCHANGED nsampled
    /\ UNCHANGED <<ts, chanVars, lifeVars, otherVars>>

\* The body of one iteration of the loop over p.Traces, from the length
\* check to the additions to the running batch.  Each local of the
\* iteration is bound to the one value the code computes for it.
ProcessTraceOf(Traces) ==
    /\ pc = "loop"
    /\ idx < ntraces
    /\ idx' = idx + 1
    /\ \E t \in Traces : \E f \in {filterTrace(ts, t)} :
            IF f.kind # "ok"
              THEN /\ ts' = f.ts
                   /\ cur' = [NoCur EXCEPT !.kind = f.kind, !.raw = t,
                                 !.allowsArg = f.allowsArg,
                                 !.trace = f.trace, !.root = f.root]
                   /\ grew' = Append(grew, [spans |-> 0, keep |-> FALSE,
                                            events |-> <<>>])
                   /\ UNCHANGED <<ss, sinputs, passed, kept, nsampled>>
              ELSE \E pt \in {newProcessedTrace(f.trace, f.root,
                                                ClientComputedTopLevel)} :
                   \E asked \in {sample(f.ts, pt, NewWorld(DefaultOracle))} :
                   \E o \in OraclesFor(asked.w.calls) :
                   \E s \in {sample(f.ts, pt, NewWorld(o))} :
                   \E sl \in {setSublayers(s.trace, f.root, s.keep)} :
                   \E a \in {appendOutputs(ss, sinputs, idx', sl.trace,
                                            pt.Env, sl.Sublayers, s.events,
                                            s.keep)} :
                        /\ ts' = s.ts
                        /\ ss' = a.ss
                        /\ sinputs' = a.sinputs
                        /\ passed' = passed \cup {idx'}
                        /\ kept' = IF s.keep THEN kept \cup {idx'} ELSE kept
                        /\ nsampled' = nsampled + 1
                        /\ cur' = [kind |-> "sampled", raw |-> t,
                                   allowsArg |-> f.allowsArg,
                                   trace |-> sl.trace, root |-> f.root,
                                   calls |-> s.w.calls, answers |-> o,
                                   keep |-> s.keep, rate |-> s.rate,
                                   events |-> s.events,
                                   topLevelCalls |-> pt.topLevelCalls,
                                   pre |-> pt.Trace, sampled |-> s.trace,
                                   sublayers |-> sl.Sublayers]
                        /\ grew' = Append(grew,
                                      [spans |-> Len(s.trace),
                                       keep |-> s.keep,
                                       events |-> s.events])
    /\ pc' = "iter"
    /\ UNCHANGED <<traces, ntraces, ClientComputedTopLevel, chanVars,
                   statsSent, batches, lifeVars, otherVars>>

\* The end of the iteration: a trace that was dropped continues with the
\* next one; otherwise the size of the running batch is checked.  The
\* locals of the iteration go out of scope.
EndIteration ==
    /\ pc = "iter"
    /\ pc' = IF cur.kind = "sampled" /\ ExceedsMaxPayloadSize(ss.Size)
               THEN "flush" ELSE "loop"
    /\ cur' = NoCur
    /\ UNCHANGED <<payloadVars, ts, ss, sinputs, chanVars, historyVars,
                   outVars, lifeVars, otherVars>>

\* Variant: the batch is sent but the loop goes on with the same batch.
FlushBatch_KeepsBatch ==
    /\ pc = "flush"
    /\ Len(TraceWriterIn) < ChanCap
    /\ TraceWriterIn' = Append(TraceWriterIn, ss)
    /\ batches' = Append(batches, ss)
    /\ pc' = "loop"
    /\ UNCHANGED <<payloadVars, ts, ss, sinputs, ConcentratorIn, historyVars,
                   cur, grew, lifeVars, otherVars>>

\* a.TraceWriter.In <- ss inside the loop: blocks while the channel is full.
FlushBatch ==
    /\ pc = "flush"
    /\ Len(TraceWriterIn) < ChanCap
    /\ TraceWriterIn' = Append(TraceWriterIn, ss)
    /\ batches' = Append(batches, ss)
    /\ ss' = NewSampledSpans
    /\ pc' = "loop"
    /\ UNCHANGED <<payloadVars, ts, sinputs, ConcentratorIn, historyVars,
                   cur, grew, lifeVars, otherVars>>

\* After the loop: a non-empty batch is sent to the trace writer.
FinalFlush ==
    /\ pc = "loop"
    /\ idx >= ntraces
    /\ IF BatchNotEmpty(ss.Size)
         THEN /\ Len(TraceWriterIn) < ChanCap
              /\ TraceWriterIn' = Append(TraceWriterIn, ss)
              /\ batches' = Append(batches, ss)
         ELSE UNCHANGED <<TraceWriterIn, batches>>
    /\ pc' = "stats"
    /\ UNCHANGED <<payloadVars, ts, ss, sinputs, ConcentratorIn,
                   historyVars, cur, grew, lifeVars, otherVars>>

\* The stats inputs are sent to the concentrator, and Process returns.
SendStats ==
    /\ pc = "stats"
    /\ IF Len(sinputs) > 0
         THEN /\ Len(ConcentratorIn) < ChanCap
              /\ ConcentratorIn' = Append(ConcentratorIn, sinputs)
              /\ statsSent' = sinputs
         ELSE UNCHANGED <<ConcentratorIn, statsSent>>
    /\ pc' = "idle"
    /\ UNCHANGED <<payloadVars, ts, ss, sinputs, TraceWriterIn, passed,
                   kept, nsampled, cur, outVars, lifeVars, otherVars>>

\* The trace writer takes a batch from its channel, as long as it runs.
TraceWriterRecv ==
    /\ ~IsStopped("TraceWriter")
    /\ Len(TraceWriterIn) > 0
    /\ TraceWriterIn' = Tail(TraceWriterIn)
    /\ UNCHANGED <<processVars, ConcentratorIn, lifeVars, otherVars>>

\* The concentrator takes a slice of inputs from its channel, as long as it
\* runs.
ConcentratorRecv ==
    /\ ~IsStopped("Concentrator")
    /\ Len(ConcentratorIn) > 0
    /\ ConcentratorIn' = Tail(ConcentratorIn)
    /\ UNCHANGED <<processVars, TraceWriterIn, lifeVars, otherVars>>

Receive == ReceiveOf(MaxRunTraces, {FALSE})

ProcessTrace == ProcessTraceOf(PipelineTraces)

Next ==
    \/ Receive
    \/ ProcessTrace
    \/ EndIteration
    \/ FlushBatch
    \/ FinalFlush
    \/ SendStats
    \/ TraceWriterRecv
    \/ ConcentratorRecv

\* The pipeline: payloads of several traces.
Spec == Init /\ [][Next]_vars

ReceiveSample == ReceiveOf(MaxSampleTraces, BOOLEAN)

SampleTrace == ProcessTraceOf(InputTraces)

NextSample ==
    \/ ReceiveSample
    \/ SampleTrace
    \/ EndIteration
    \/ FlushBatch
    \/ FinalFlush
    \/ SendStats
    \/ TraceWriterRecv
    \/ ConcentratorRecv

\* The sampling coordinator: every priority, error position, root position
\* and sampler answer, on short runs.
SpecSample == Init /\ [][NextSample]_vars

\* ------------------------------------------------------------- client stats
\* ProcessStats is called with a payload of Inputs and builds its output.
ProcessStatsOf(Inputs) ==
    /\ statsPc = "idle"
    /\ \E p \in Inputs :
         \E revs \in [1..Len(GroupsOf(p, Len(p.Stats))) -> BOOLEAN] :
            /\ statsIn' = p
            /\ out' = statsPayload(p, Lang, revs)
    /\ statsPc' = "send"
    /\ UNCHANGED <<OutStats, countVars, pbVars, processVars, chanVars, lifeVars>>

\* Variant: the payload is dropped when the channel is full.
SendOutStats_DropWhenFull ==
    /\ statsPc = "send"
    /\ OutStats' = IF Len(OutStats) < ChanCap THEN Append(OutStats, out)
                                              ELSE OutStats
    /\ statsPc' = "idle"
    /\ statsIn' = NoStatsIn
    /\ out' = NoOut
    /\ UNCHANGED <<countVars, pbVars, processVars, chanVars, lifeVars>>

\* Variant: the call is also counted in the TagStats of the trace path.
SendOutStats_Counted ==
    /\ statsPc = "send"
    /\ Len(OutStats) < ChanCap
    /\ OutStats' = Append(OutStats, out)
    /\ statsPc' = "idle"
    /\ statsIn' = NoStatsIn
    /\ out' = NoOut
    /\ ts' = [ts EXCEPT !.SpansReceived = @ + 1]
    /\ UNCHANGED <<countVars, pbVars, pc, payloadVars, ss, sinputs, historyVars, cur,
                   outVars, chanVars, lifeVars>>

\* a.OutStats <- &out: blocks while the channel is full; then ProcessStats
\* returns.
SendOutStats ==
    /\ statsPc = "send"
    /\ Len(OutStats) < ChanCap
    /\ OutStats' = Append(OutStats, out)
    /\ statsPc' = "idle"
    /\ statsIn' = NoStatsIn
    /\ out' = NoOut
    /\ UNCHANGED <<countVars, pbVars, processVars, chanVars, lifeVars>>

\* The stats writer takes a payload from its channel, as long as it runs.
StatsWriterRecv ==
    /\ ~IsStopped("StatsWriter")
    /\ Len(OutStats) > 0
    /\ OutStats' = Tail(OutStats)
    /\ UNCHANGED <<statsPc, statsIn, out, countVars, pbVars, processVars, chanVars,
                   lifeVars>>

ProcessStats == ProcessStatsOf(ClientStatsPayloads)

NextStats ==
    \/ ProcessStats
    \/ SendOutStats
    \/ StatsWriterRecv

\* ProcessStats alone, on every payload.
SpecStats == Init /\ [][NextStats]_vars

\* The traces of the runs where Process stands beside ProcessStats.
QueueTraces == {<<>>, MkTrace(MaxSpans, 1, 0, "GET /", FALSE, 0, TRUE)}

ProcessQueueTrace == ProcessTraceOf(QueueTraces)

ProcessQueueStats == ProcessStatsOf(QueueStatsPayloads)

NextQueues ==
    \/ Receive
    \/ ProcessQueueTrace
    \/ EndIteration
    \/ FlushBatch
    \/ FinalFlush
    \/ SendStats
    \/ TraceWriterRecv
    \/ ConcentratorRecv
    \/ ProcessQueueStats
    \/ SendOutStats
    \/ StatsWriterRecv

\* Process and ProcessStats side by side with their three output channels.
SpecQueues == Init /\ [][NextQueues]_vars

\* ----------------------------------------------------------------- counting
\* The counters of TagStats in the order Process and sample add to them.
CounterOrder ==
    <<"SpansReceived", "SpansDropped", "TracesFiltered", "SpansFiltered",
      "TracesPriorityNone", "TracesPriorityNeg", "TracesPriority0",
      "TracesPriority1", "TracesPriority2", "EventsExtracted",
      "EventsSampled">>

\* The traces of the payloads the counting workers take.
CountTraces ==
    {MkTrace(2, 1, 0, "GET /", FALSE, 0, FALSE),
     MkTrace(2, 1, 0, "SELECT ?", FALSE, 0, TRUE),
     MkTrace(1, 1, 0, "GET /", TRUE, 1, TRUE),
     MkTrace(1, 1, 0, "GET /", FALSE, 0, TRUE),
     MkTrace(MaxSpans, 1, 0, "GET /", FALSE, 0, TRUE)}

\* The adds Process makes for a payload of the one trace t whose events are
\* ev, as <<counter, delta>> in the order of the code.
Increments(t, ev) ==
    LET f == filterTrace(NewTagStats, t)
        d == IF f.kind # "ok" THEN f.ts
             ELSE sample(f.ts, newProcessedTrace(f.trace, f.root, FALSE),
                         NewWorld([DefaultOracle EXCEPT !.events = ev])).ts
        Added(c) == d[c] > 0
        counters == SelectSeq(CounterOrder, Added)
    IN [i \in 1..Len(counters) |-> <<counters[i], d[counters[i]]>>]

\* Variant: the delta is added to the value the worker read before.
AddInt64_OnValueRead(value, read, delta) == read + delta

\* atomic.AddInt64: the delta is added to the value the counter holds when
\* the operation runs; a value read earlier plays no part.
AddInt64(value, read, delta) == value + delta

\* A worker takes a payload of one trace whose Source is the shared TagStats
\* and enters Process.
CountBegin(w) ==
    /\ cw[w].pc = "idle"
    /\ ncount < MaxPayloads
    /\ ncount' = ncount + 1
    /\ \E t \in CountTraces, ev \in EventResults :
         \E plan \in {Increments(t, ev)} :
            cw' = [cw EXCEPT ![w] =
                     [pc |-> "adding", plan |-> plan,
                      read |-> ts[plan[1][1]]]]
    /\ UNCHANGED <<ts, made, statsVars, pbVars, pc, payloadVars, ss, sinputs,
                   historyVars, cur, outVars, chanVars, lifeVars>>

\* The next atomic.AddInt64 of the worker on the shared TagStats.
CountAdd(w) ==
    /\ cw[w].pc = "adding"
    /\ LET c == cw[w].plan[1][1]
           delta == cw[w].plan[1][2]
           rest == Tail(cw[w].plan)
       IN /\ ts' = [ts EXCEPT ![c] = AddInt64(ts[c], cw[w].read, delta)]
          /\ made' = [made EXCEPT ![c] = @ + delta]
          /\ cw' = [cw EXCEPT ![w] =
                      IF rest = <<>> THEN IdleCounter
                      ELSE [pc |-> "adding", plan |-> rest,
                            read |-> ts'[rest[1][1]]]]
    /\ UNCHANGED <<ncount, statsVars, pbVars, pc, payloadVars, ss, sinputs,
                   historyVars, cur, outVars, chanVars, lifeVars>>

Begin == \E w \in Workers : CountBegin(w)
Add == \E w \in Workers : CountAdd(w)

NextCount ==
    \/ Begin
    \/ Add

\* Several workers inside Process on payloads of one Source.
SpecCount == Init /\ [][NextCount]_vars

\* ----------------------------------------------------------- wire round trip
\* Marshal is called on a payload.
PbMarshal ==
    /\ pbPc = "idle"
    /\ \E m \in PbPayloads :
          /\ pbMsg' = m
          /\ pbData' = ClientStatsPayload_Marshal(m)
    /\ pbPc' = "marshalled"
    /\ UNCHANGED <<pbOut, statsVars, countVars, processVars, chanVars,
                   lifeVars>>

\* Unmarshal is called with the bytes Marshal returned, on a fresh message.
PbUnmarshal ==
    /\ pbPc = "marshalled"
    /\ pbData.err = ""
    /\ pbOut' = ClientStatsPayload_Unmarshal(pbData.data, 1,
                                             NewClientStatsPayload)
    /\ pbPc' = "done"
    /\ UNCHANGED <<pbMsg, pbData, statsVars, countVars, processVars,
                   chanVars, lifeVars>>

\* The caller goes on to its next payload.
PbReturn ==
    /\ pbPc = "done"
    /\ pbPc' = "idle"
    /\ pbMsg' = NewClientStatsPayload
    /\ pbData' = NoData
    /\ pbOut' = NoUnmarshal
    /\ UNCHANGED <<statsVars, countVars, processVars, chanVars, lifeVars>>

NextPb ==
    \/ PbMarshal
    \/ PbUnmarshal
    \/ PbReturn

\* Marshal followed by Unmarshal, on every payload.
SpecPb == Init /\ [][NextPb]_vars

\* ---------------------------------------------------------------- lifecycle
\* Run: the components started with Start(), then the two writers started
\* with go X.Run().
StartOrder ==
    <<"Receiver", "Concentrator", "ScoreSampler", "ErrorsScoreSampler",
      "PrioritySampler", "EventProcessor", "TraceWriter", "StatsWriter">>

\* Variant: the samplers are stopped before the writers.
StopOrder_SamplersFirst ==
    <<"Receiver", "Concentrator", "ScoreSampler", "ExceptionSampler",
      "ErrorsScoreSampler", "PrioritySampler", "EventProcessor",
      "TraceWriter", "StatsWriter", "obfuscator">>

\* Variant: the started components are stopped last-started first.
StopOrder_Reversed ==
    <<"StatsWriter", "TraceWriter", "EventProcessor", "PrioritySampler",
      "ErrorsScoreSampler", "ExceptionSampler", "ScoreSampler",
      "Concentrator", "Receiver", "obfuscator">>

\* loop: the Stop() calls after <-a.ctx.Done(), in the order of the code.
StopOrder ==
    <<"Receiver", "Concentrator", "TraceWriter", "StatsWriter",
      "ScoreSampler", "ExceptionSampler", "ErrorsScoreSampler",
      "PrioritySampler", "EventProcessor", "obfuscator">>

IsStarted(c) == \E i \in DOMAIN started : started[i] = c

\* The samplers and the event processor one trace makes sample ask: none
\* (negative priority), or the paths of runSamplers followed by the event
\* processor.
SamplerPaths ==
    {{},
     {"PrioritySampler", "ErrorsScoreSampler", "EventProcessor"},
     {"PrioritySampler", "ExceptionSampler", "EventProcessor"},
     {"ErrorsScoreSampler", "EventProcessor"},
     {"ScoreSampler", "EventProcessor"}}

\* Run starts the next component of its list.
RunStart ==
    /\ runPc = "start"
    /\ started' = Append(started, StartOrder[Len(started) + 1])
    /\ runPc' = IF Len(started') = Len(StartOrder) THEN "spawn" ELSE "start"
    /\ UNCHANGED <<otherVars, processVars, chanVars, In, inClosed, ctxDone, stopped, wk,
                   produced, ndeq, lateAdd>>

\* Run starts the next worker with go a.work(); after the last one it
\* enters loop.
RunSpawn ==
    /\ runPc = "spawn"
    /\ LET w == CHOOSE v \in Workers :
                   /\ wk[v].pc = "none"
                   /\ \A u \in Workers : u < v => wk[u].pc # "none"
       IN /\ wk' = [wk EXCEPT ![w].pc = "recv"]
          /\ runPc' = IF w = NumWorkers THEN "loop" ELSE "spawn"
    /\ UNCHANGED <<otherVars, processVars, chanVars, In, inClosed, ctxDone, started,
                   stopped, produced, ndeq, lateAdd>>

\* The context given to NewAgent is cancelled.
Cancel ==
    /\ ~ctxDone
    /\ ctxDone' = TRUE
    /\ UNCHANGED <<otherVars, processVars, chanVars, In, inClosed, started, stopped,
                   runPc, wk, produced, ndeq, lateAdd>>

\* loop, after <-a.ctx.Done(): the next Stop() call.  Whether the receiver
\* closes a.In when it stops is not decided in this file: work provides for
\* both.  loop returns after the last call.
LoopStop ==
    /\ runPc = "loop"
    /\ ctxDone
    /\ LET c == StopOrder[Len(stopped) + 1]
       IN /\ stopped' = Append(stopped, c)
          /\ IF c = "Receiver"
               THEN \E closes \in BOOLEAN : inClosed' = closes
               ELSE UNCHANGED inClosed
    /\ runPc' = IF Len(stopped') = Len(StopOrder) THEN "returned" ELSE "loop"
    /\ UNCHANGED <<otherVars, processVars, chanVars, In, ctxDone, started, wk, produced,
                   ndeq, lateAdd>>

\* The running receiver puts a decoded payload on a.In.
ReceiverPut ==
    /\ IsStarted("Receiver")
    /\ ~IsStopped("Receiver")
    /\ produced < MaxPayloads
    /\ Len(In) < ChanCap
    /\ produced' = produced + 1
    /\ In' = Append(In, produced')
    /\ UNCHANGED <<otherVars, processVars, chanVars, inClosed, ctxDone, started,
                   stopped, runPc, wk, ndeq, lateAdd>>

\* Variant: the worker reads the head of the queue and leaves it there.
WorkerDequeue_Peek(w) ==
    /\ wk[w].pc = "recv"
    /\ Len(In) > 0
    /\ wk' = [wk EXCEPT ![w] = [pc |-> "process", p |-> Head(In),
                                late |-> ctxDone]]
    /\ ndeq' = [ndeq EXCEPT ![Head(In)] = @ + 1]
    /\ UNCHANGED <<otherVars, processVars, chanVars, In, inClosed, ctxDone, started,
                   stopped, runPc, produced, lateAdd>>

\* Variant: the worker returns once it has taken a payload, without
\* calling Process on it.
WorkerDequeue_NoProcess(w) ==
    /\ wk[w].pc = "recv"
    /\ Len(In) > 0
    /\ In' = Tail(In)
    /\ wk' = [wk EXCEPT ![w] = [pc |-> "exited", p |-> Head(In),
                                late |-> ctxDone]]
    /\ ndeq' = [ndeq EXCEPT ![Head(In)] = @ + 1]
    /\ UNCHANGED <<otherVars, processVars, chanVars, inClosed, ctxDone, started,
                   stopped, runPc, produced, lateAdd>>

\* work: p, ok := <-a.In with ok true; the worker calls Process on p.  late
\* records that the context was already cancelled at the receive.
WorkerDequeue(w) ==
    /\ wk[w].pc = "recv"
    /\ Len(In) > 0
    /\ In' = Tail(In)
    /\ wk' = [wk EXCEPT ![w] = [pc |-> "process", p |-> Head(In),
                                late |-> ctxDone]]
    /\ ndeq' = [ndeq EXCEPT ![Head(In)] = @ + 1]
    /\ UNCHANGED <<otherVars, processVars, chanVars, inClosed, ctxDone, started,
                   stopped, runPc, produced, lateAdd>>

\* Variant: the worker leaves its loop once the context is cancelled.
WorkerExit_OnDone(w) ==
    /\ wk[w].pc = "recv"
    /\ ctxDone
    /\ wk' = [wk EXCEPT ![w].pc = "exited"]
    /\ UNCHANGED <<otherVars, processVars, chanVars, In, inClosed, ctxDone, started,
                   stopped, runPc, produced, ndeq, lateAdd>>

\* work: the receive reports ok false (a.In closed and drained) and the
\* worker returns.
WorkerExit(w) ==
    /\ wk[w].pc = "recv"
    /\ inClosed
    /\ In = <<>>
    /\ wk' = [wk EXCEPT ![w].pc = "exited"]
    /\ UNCHANGED <<otherVars, processVars, chanVars, In, inClosed, ctxDone, started,
                   stopped, runPc, produced, ndeq, lateAdd>>

\* Process up to its first channel send: an empty payload (or one whose
\* traces are all discarded) returns with nothing to send; otherwise sample
\* has asked the samplers of one of its paths (late: those of them that
\* loop had already stopped), there are stats inputs, and there is a batch
\* to send or not.
WorkerProcess(w) ==
    /\ wk[w].pc = "process"
    /\ \/ /\ wk' = [wk EXCEPT ![w] = [pc |-> "recv", p |-> 0,
                                      late |-> FALSE]]
          /\ UNCHANGED lateAdd
       \/ \E late \in {{c \in asked : IsStopped(c)} : asked \in SamplerPaths},
                batch \in BOOLEAN :
             /\ lateAdd' = IF late # {} THEN late ELSE lateAdd
             /\ wk' = [wk EXCEPT ![w].pc = IF batch THEN "flush"
                                                    ELSE "stats"]
    /\ UNCHANGED <<otherVars, processVars, chanVars, In, inClosed, ctxDone, started,
                   stopped, runPc, produced, ndeq>>

\* What a worker of the pool sends on an output channel: the content is
\* that of Process above and is not tracked here.
OfWorker == "sent"

\* Process: a.TraceWriter.In <- ss, blocking while the channel is full.
WorkerFlush(w) ==
    /\ wk[w].pc = "flush"
    /\ Len(TraceWriterIn) < ChanCap
    /\ TraceWriterIn' = Append(TraceWriterIn, OfWorker)
    /\ wk' = [wk EXCEPT ![w].pc = "stats"]
    /\ UNCHANGED <<otherVars, processVars, ConcentratorIn, In, inClosed, ctxDone,
                   started, stopped, runPc, produced, ndeq, lateAdd>>

\* Process: a.Concentrator.In <- sinputs, blocking while the channel is
\* full; Process returns and the worker is back at its receive.
WorkerStats(w) ==
    /\ wk[w].pc = "stats"
    /\ Len(ConcentratorIn) < ChanCap
    /\ ConcentratorIn' = Append(ConcentratorIn, OfWorker)
    /\ wk' = [wk EXCEPT ![w] = [pc |-> "recv", p |-> 0, late |-> FALSE]]
    /\ UNCHANGED <<otherVars, processVars, TraceWriterIn, In, inClosed, ctxDone,
                   started, stopped, runPc, produced, ndeq, lateAdd>>

Dequeue == \E w \in Workers : WorkerDequeue(w)
Exit == \E w \in Workers : WorkerExit(w)
Process == \E w \in Workers : WorkerProcess(w)
Flush == \E w \in Workers : WorkerFlush(w)
Stats == \E w \in Workers : WorkerStats(w)

NextLife ==
    \/ RunStart
    \/ RunSpawn
    \/ Cancel
    \/ LoopStop
    \/ ReceiverPut
    \/ Dequeue
    \/ Exit
    \/ Process
    \/ Flush
    \/ Stats
    \/ TraceWriterRecv
    \/ ConcentratorRecv

\* Run, loop and the pool of workers around the receiver and the writers.
SpecLife == Init /\ [][NextLife]_vars

\* The goroutines of Run, of the workers and of the running writers are
\* scheduled: each step that stays possible is eventually taken.
SpecLifeFair ==
    /\ SpecLife
    /\ WF_vars(RunStart) /\ WF_vars(RunSpawn) /\ WF_vars(LoopStop)
    /\ \A w \in Workers :
          /\ WF_vars(WorkerDequeue(w))
          /\ WF_vars(WorkerExit(w))
          /\ WF_vars(WorkerProcess(w))
          /\ WF_vars(WorkerFlush(w))
          /\ WF_vars(WorkerStats(w))
    /\ WF_vars(TraceWriterRecv)
    /\ WF_vars(ConcentratorRecv)

\* The agent while it runs: the context is not cancelled, so loop waits,
\* nothing is stopped and a.In stays open.
NextRun ==
    \/ RunStart
    \/ RunSpawn
    \/ ReceiverPut
    \/ Dequeue
    \/ Process
    \/ Flush
    \/ Stats
    \/ TraceWriterRecv
    \/ ConcentratorRecv

SpecRun == Init /\ [][NextRun]_vars

\* The goroutines of Run and of the workers are scheduled, and the trace
\* writer and the concentrator keep taking what is put on their channels.
SpecRunFair ==
    /\ SpecRun
    /\ WF_vars(RunStart) /\ WF_vars(RunSpawn)
    /\ \A w \in Workers :
          /\ WF_vars(WorkerDequeue(w))
          /\ WF_vars(WorkerProcess(w))
          /\ WF_vars(WorkerFlush(w))
          /\ WF_vars(WorkerStats(w))
    /\ WF_vars(TraceWriterRecv)
    /\ WF_vars(ConcentratorRecv)

\* ------------------------------------------------------------------- claims
\* The iteration at hand called sample for its trace.
Sampled == cur.kind = "sampled"

\* The root of the trace at hand as the client sent it.
CurRoot == cur.raw[cur.root]
CurHasPriority == KeySamplingPriority \in DOMAIN CurRoot.Metrics
CurPriority == CurRoot.Metrics[KeySamplingPriority]
CurHasError == \E i \in 1..Len(cur.raw) : cur.raw[i].Error # 0
CurNegative == Sampled /\ CurHasPriority /\ CurPriority < 0
CurPriorityTrace == Sampled /\ CurHasPriority /\ CurPriority >= 0
CurNoPriority == Sampled /\ ~CurHasPriority

\* C1: a trace that reaches sample with a priority below 0 is not kept and
\* none of the priority, score, error score and exception samplers is called
\* for it.
C1_NegativePriorityDropped ==
    CurNegative =>
        /\ cur.keep = FALSE
        /\ cur.calls.Priority = 0
        /\ cur.calls.Score = 0
        /\ cur.calls.Errors = 0
        /\ cur.calls.Exception = 0

C1_Witness == CurNegative /\ CurHasError /\ pc = "iter"

\* C3: for a trace with a priority of 0 or more and an error span, the
\* priority sampler and the error score sampler are each called once, the
\* exception sampler is not called, and the trace is kept exactly when one
\* of the two samplers keeps it.
C3_PriorityAndErrorSamplers ==
    (CurPriorityTrace /\ CurHasError) =>
        /\ cur.calls.Priority = 1
        /\ cur.calls.Errors = 1
        /\ cur.calls.Exception = 0
        /\ cur.keep = (cur.answers.priority[1] \/ cur.answers.errors[1])

C3_Witness ==
    /\ CurPriorityTrace
    /\ CurHasError
    /\ ~cur.answers.priority[1]
    /\ cur.answers.errors[1]
    /\ cur.keep

\* The fraction rate equals 1 / (1/r1 + 1/r2 - 1).
IsHarmonic(rate, r1, r2) ==
    rate[1] * (r1[2] * r2[1] + r2[2] * r1[1] - r1[1] * r2[1])
        = rate[2] * r1[1] * r2[1]

C5_ExceptionSampler ==
    /\ (CurPriorityTrace /\ ~CurHasError /\ cur.answers.exception) =>
          cur.keep /\ cur.rate = <<1, 1>>
    /\ (Sampled /\ CurHasError) => cur.calls.Exception = 0

C5_Witness ==
    /\ CurPriorityTrace
    /\ ~CurHasError
    /\ cur.calls.Exception = 1
    /\ cur.answers.exception
    /\ ~cur.answers.priority[1]
    /\ cur.answers.priority[2] = <<1, 4>>

\* C6: for a trace without priority exactly one sampler is called, once: the
\* error score sampler when a span has an error, the score sampler
\* otherwise; its decision and rate are returned unchanged and neither the
\* priority nor the exception sampler is called.
C6_NoPrioritySampler ==
    CurNoPriority =>
        /\ cur.calls.Priority = 0
        /\ cur.calls.Exception = 0
        /\ IF CurHasError
             THEN /\ cur.calls.Errors = 1
                  /\ cur.calls.Score = 0
                  /\ <<cur.keep, cur.rate>> = cur.answers.errors
             ELSE /\ cur.calls.Score = 1
                  /\ cur.calls.Errors = 0
                  /\ <<cur.keep, cur.rate>> = cur.answers.score

C6_Witness ==
    /\ CurNoPriority
    /\ Len(cur.raw) = 2
    /\ cur.raw[1].Error = 0
    /\ cur.raw[2].Error # 0
    /\ cur.calls.Errors = 1
    /\ cur.keep

\* Number of entries of a slice of stats inputs for the trace at position i.
InputsOf(inputs, i) ==
    Cardinality({k \in DOMAIN inputs : inputs[k].Trace = i})

OneInputPerPassed(inputs) ==
    /\ \A i \in passed : InputsOf(inputs, i) = 1
    /\ Len(inputs) = Cardinality(passed)

\* C2: every trace that passed normalization and the blacklist has exactly
\* one stats input in the slice gathered for its payload, and in the slice
\* sent to the concentrator when Process returns, whether it was kept,
\* dropped by a sampler or dropped for its negative priority.
C2_StatsInputPerTrace ==
    /\ pc \in {"loop", "iter", "flush", "stats"} => OneInputPerPassed(sinputs)
    /\ pc = "idle" => OneInputPerPassed(statsSent)

C2_Witness ==
    /\ pc = "idle"
    /\ passed = {1, 2}
    /\ kept = {}
    /\ ts.TracesPriorityNeg = 1
    /\ ts.TracesPriorityNone = 1
    /\ Len(statsSent) = 2

\* The events the event processor answered for the trace at hand.
CurExtracted == IF cur.answers.events[1] = 1 THEN <<cur.root>> ELSE <<>>

\* C7 as stated: the event extractor runs once for every trace that reaches
\* sample, a trace with a negative priority included, and its events are
\* returned.
C7_ExtractorAlwaysRuns ==
    Sampled => cur.calls.Events = 1 /\ cur.events = CurExtracted

\* C7, amended: the event extractor runs once for every trace that reaches
\* sample with no priority or a priority of 0 or more, kept or not, and its
\* events are returned; for a negative priority it does not run and no
\* event is returned.
C7_ExtractorUnlessNegative ==
    Sampled =>
        IF CurNegative
          THEN cur.calls.Events = 0 /\ cur.events = <<>>
          ELSE cur.calls.Events = 1 /\ cur.events = CurExtracted

C7_Witness ==
    /\ Sampled
    /\ ~CurNegative
    /\ ~cur.keep
    /\ cur.calls.Events = 1
    /\ cur.events # <<>>

PriorityCounters ==
    {"TracesPriorityNone", "TracesPriorityNeg", "TracesPriority0",
     "TracesPriority1", "TracesPriority2"}

\* The counter that stands for the priority of a root span.
CounterOf(root) ==
    IF KeySamplingPriority \notin DOMAIN root.Metrics
      THEN "TracesPriorityNone"
      ELSE LET p == root.Metrics[KeySamplingPriority]
           IN CASE p < 0 -> "TracesPriorityNeg"
                [] p = 0 -> "TracesPriority0"
                [] p = 1 -> "TracesPriority1"
                [] p >= 2 -> "TracesPriority2"

C8_Step ==
    (pc = "loop" /\ pc' = "iter" /\ cur'.kind = "sampled") =>
        \A c \in PriorityCounters :
            ts'[c] = ts[c] + IF c = CounterOf(cur'.raw[cur'.root])
                               THEN 1 ELSE 0

C8_Sum ==
    ts.TracesPriorityNone + ts.TracesPriorityNeg + ts.TracesPriority0
        + ts.TracesPriority1 + ts.TracesPriority2 = nsampled

Sanitized(span) == Replace(<<Obfuscate(span)>>)[1] = span

\* C9 as stated: the blacklist is asked about the obfuscated and replaced
\* root span.
C9_BlacklistSeesSanitized ==
    cur.kind \in {"filtered", "sampled"} => Sanitized(cur.allowsArg)

\* C9, amended: the blacklist is asked first, about the root span as it
\* left normalization; obfuscation and tag replacement then run on every
\* span of a trace the blacklist allowed, before it is sampled, and never
\* on a blacklisted trace.
C9_BlacklistThenSanitize ==
    cur.kind \in {"filtered", "sampled"} =>
        /\ cur.allowsArg = cur.raw[cur.root]
        /\ cur.kind = "filtered" => cur.trace = cur.raw
        /\ cur.kind = "sampled" =>
              /\ Len(cur.trace) = Len(cur.raw)
              /\ \A i \in 1..Len(cur.trace) : Sanitized(cur.trace[i])

C9_Witness ==
    /\ Sampled
    /\ cur.allowsArg.Resource = "SELECT 42"
    /\ cur.trace[cur.root].Resource = "SELECT ?"
    /\ "SELECT ?" \in Blacklist

\* The trace is well formed and the blacklist rejects its root.
Blacklisted(t) ==
    /\ Len(t) > 0
    /\ \A i \in 1..Len(t) : t[i].TraceID # 0
    /\ \E i \in 1..Len(t) : t[i].ParentID = 0 /\ t[i].Resource \in Blacklist

C10_Step ==
    (pc = "loop" /\ pc' = "iter" /\ Blacklisted(cur'.raw)) =>
        /\ ts' = [ts EXCEPT !.SpansReceived = @ + Len(cur'.raw),
                            !.TracesFiltered = @ + 1,
                            !.SpansFiltered = @ + Len(cur'.raw)]
        /\ cur'.calls = NoCalls
        /\ nsampled' = nsampled
        /\ sinputs' = sinputs
        /\ ss' = ss
        /\ TraceWriterIn' = TraceWriterIn
        /\ ConcentratorIn' = ConcentratorIn

\* Only traces that passed the blacklist are in the outputs of the payload.
C10_Outputs ==
    /\ \A k \in DOMAIN sinputs : sinputs[k].Trace \in passed
    /\ \A k \in DOMAIN ss.Traces : ss.Traces[k] \in passed
    /\ \A k \in DOMAIN ss.Events : ss.Events[k][1] \in passed
    /\ (pc = "iter" /\ Blacklisted(cur.raw)) => idx \notin passed

\* C10: a trace whose root the blacklist rejects adds 1 to TracesFiltered
\* and its span count to SpansFiltered and nothing else happens for it: no
\* sampler, no event extractor, no priority counter, no stats input, no span
\* or event in a batch.
C10_BlacklistedDropped == [][C10_Step]_vars /\ []C10_Outputs

C10_Witness ==
    /\ pc = "iter"
    /\ Blacklisted(cur.raw)
    /\ Len(cur.raw) = 2
    /\ idx = 2
    /\ passed = {1}
    /\ ss.Size > 0
    /\ ts.SpansFiltered = 2

\* The trace has spans and normalization returns an error for it.
Invalid(t) == Len(t) > 0 /\ normalizeTrace(t)

C11_Step ==
    (pc = "loop" /\ pc' = "iter" /\ Invalid(cur'.raw)) =>
        /\ ts' = [ts EXCEPT !.SpansReceived = @ + Len(cur'.raw),
                            !.SpansDropped = @ + Len(cur'.raw)]
        /\ cur'.kind = "invalid"
        /\ cur'.calls = NoCalls
        /\ nsampled' = nsampled
        /\ sinputs' = sinputs
        /\ ss' = ss
        /\ passed' = passed
        /\ TraceWriterIn' = TraceWriterIn
        /\ ConcentratorIn' = ConcentratorIn

\* After the dropped trace the loop is back at its head (pc = "loop", where
\* the next trace is taken while idx < ntraces), without a flush.
C11_GoesOn ==
    (pc = "iter" /\ Invalid(cur.raw) /\ pc' # pc) =>
        /\ pc' = "loop"
        /\ <<idx', ntraces', ss', sinputs'>> = <<idx, ntraces, ss, sinputs>>

\* C11: a trace for which normalization returns an error adds its span
\* count to SpansDropped (and to SpansReceived) and nothing else happens for
\* it: no sampler, no event extractor, no stats input, no batch entry; the
\* loop then continues with the next trace of the payload.
C11_InvalidDropped == [][C11_Step /\ C11_GoesOn]_vars

C11_Witness ==
    /\ pc = "iter"
    /\ Invalid(cur.raw)
    /\ idx = 1
    /\ ntraces = 2
    /\ ts.SpansDropped = Len(cur.raw)
    /\ sinputs = <<>>

\* The counters of TagStats that record a drop or a filter.
DropCounters == {"SpansDropped", "TracesFiltered", "SpansFiltered"}

\* C12: every trace the loop discards before sampling (empty, failing
\* normalization, blacklisted) changes at least one drop or filter counter
\* of the payload's TagStats.
C12_DiscardsCounted ==
    [][(pc = "loop" /\ pc' = "iter" /\ cur'.kind # "sampled") =>
          \E c \in DropCounters : ts'[c] # ts[c]]_vars

\* The traces and the events in the batches handed to the trace writer for
\* the payload, and the events extracted from the payload's traces.
HandedTraces ==
    UNION {{batches[b].Traces[k] : k \in DOMAIN batches[b].Traces} :
             b \in DOMAIN batches}
HandedEvents ==
    UNION {{batches[b].Events[k] : k \in DOMAIN batches[b].Events} :
             b \in DOMAIN batches}
Extracted ==
    UNION {{<<i, grew[i].events[k]>> : k \in DOMAIN grew[i].events} :
             i \in DOMAIN grew}

RECURSIVE SumOver(_, _)
SumOver(f, n) == IF n = 0 THEN 0 ELSE f[n] + SumOver(f, n - 1)

\* C13: when Process is past its loop's final flush, every kept trace and
\* every extracted event of the payload is in exactly one batch handed to
\* TraceWriter.In, and the next payload starts with a fresh batch.
C13_AllHandedAtReturn ==
    /\ pc \in {"stats", "idle"} =>
         /\ HandedTraces = kept
         /\ HandedEvents = Extracted
         /\ SumOver([b \in DOMAIN batches |-> Len(batches[b].Traces)],
                    Len(batches)) = Cardinality(kept)
         /\ SumOver([b \in DOMAIN batches |-> Len(batches[b].Events)],
                    Len(batches)) = Cardinality(Extracted)
    /\ (pc = "loop" /\ idx = 0) => ss = NewSampledSpans /\ batches = <<>>

C13_Witness ==
    /\ pc = "idle"
    /\ kept = {1, 2}
    /\ Extracted # {}
    /\ Len(batches) = 2
    /\ batches[2].Size <= MaxPayloadSize

CeilDiv(a, b) == (a + b - 1) \div b

\* The kept traces of the payload have s spans each and no trace gave an
\* event: the batch grows by the same size at every kept trace.
Uniform(s) ==
    \A i \in DOMAIN grew :
        /\ grew[i].events = <<>>
        /\ grew[i].keep => grew[i].spans = s

\* The number of traces of s spans after which the batch first exceeds the
\* ceiling.
FirstOver(s) == (MaxPayloadSize \div (s * SpanMsgsize)) + 1

C15_Step ==
    \A w \in Workers :
        /\ (wk[w].pc # "exited" /\ wk'[w].pc = "exited") =>
              /\ wk[w].pc = "recv"
              /\ inClosed
              /\ In = <<>>
        /\ (wk[w].pc = "recv" /\ wk'[w].pc = "process") =>
              /\ Len(In) > 0
              /\ wk'[w].p = Head(In)
              /\ wk'[w].late = ctxDone
        /\ (wk[w].pc \in {"process", "flush", "stats"}) =>
              wk'[w].pc \in {"process", "flush", "stats", "recv"}

C16_InFlightCompletes ==
    \A w \in Workers :
        (ctxDone /\ wk[w].pc \in {"process", "flush", "stats"})
            ~> (wk[w].pc \in {"recv", "exited"})

\* The position of a component in a sequence of components, 0 when absent.
Pos(seq, c) ==
    IF \E i \in DOMAIN seq : seq[i] = c
      THEN CHOOSE i \in DOMAIN seq : seq[i] = c
      ELSE 0

Samplers ==
    {"ScoreSampler", "ExceptionSampler", "ErrorsScoreSampler",
     "PrioritySampler"}
Writers == {"TraceWriter", "StatsWriter"}

\* c is stopped, and only after every component of the set before.
StoppedAfterAll(c, before) ==
    IsStopped(c) => \A b \in before : 0 < Pos(stopped, b)
                                       /\ Pos(stopped, b) < Pos(stopped, c)

\* C17 as stated: the receiver is stopped first, then the Concentrator,
\* then every sampler, and only then the writers.
C17_WritersAfterSamplers ==
    /\ Len(stopped) >= 1 => stopped[1] = "Receiver"
    /\ Len(stopped) >= 2 => stopped[2] = "Concentrator"
    /\ \A wr \in Writers : StoppedAfterAll(wr, Samplers)

\* C17, amended: the receiver is stopped first, then the Concentrator, then
\* the writers (TraceWriter, StatsWriter), and only then the samplers, the
\* event processor and the obfuscator: no sampler is stopped before both
\* writers have been stopped.
C17_SamplersAfterWriters ==
    /\ Len(stopped) >= 1 => stopped[1] = "Receiver"
    /\ Len(stopped) >= 2 => stopped[2] = "Concentrator"
    /\ Len(stopped) >= 3 => stopped[3] = "TraceWriter"
    /\ Len(stopped) >= 4 => stopped[4] = "StatsWriter"
    /\ \A i \in DOMAIN stopped :
          stopped[i] \in Samplers \cup {"EventProcessor", "obfuscator"} =>
              i > 4
    /\ runPc = "returned" =>
          {stopped[i] : i \in DOMAIN stopped} =
              Samplers \cup Writers \cup
              {"Receiver", "Concentrator", "EventProcessor", "obfuscator"}

C17_Witness ==
    /\ runPc = "loop"
    /\ IsStopped("StatsWriter")
    /\ IsStopped("ScoreSampler")
    /\ ~IsStopped("PrioritySampler")

Reverse(seq) == [i \in 1..Len(seq) |-> seq[Len(seq) + 1 - i]]

Starters ==
    {"Receiver", "Concentrator", "ScoreSampler", "ErrorsScoreSampler",
     "PrioritySampler", "EventProcessor"}

InStarters(c) == c \in Starters
InWriters(c) == c \in Writers

IsPrefix(a, b) == Len(a) <= Len(b) /\ \A i \in DOMAIN a : a[i] = b[i]

C19_NoWorkAfterStop ==
    [][/\ Len(ConcentratorIn') > Len(ConcentratorIn)
            => ~IsStopped("Concentrator")
       /\ Len(TraceWriterIn') > Len(TraceWriterIn)
            => ~IsStopped("TraceWriter")
       /\ lateAdd' = lateAdd]_vars

C20_Step ==
    \A w \in Workers :
        (wk'[w].p # wk[w].p /\ wk'[w].p # 0) =>
            /\ wk[w].pc = "recv"
            /\ wk[w].p = 0
            /\ wk'[w].p = Head(In)
            /\ In' = Tail(In)

C20_Owners ==
    /\ \A p \in DOMAIN ndeq : ndeq[p] <= 1
    /\ \A w1, w2 \in Workers :
          (w1 # w2 /\ wk[w1].p # 0) => wk[w1].p # wk[w2].p
    /\ \A w \in Workers :
          /\ wk[w].p # 0 <=> wk[w].pc \in {"process", "flush", "stats"}
          /\ wk[w].p # 0 => \A i \in DOMAIN In : In[i] # wk[w].p

\* C20: each payload put on a.In is taken by at most one worker, and a
\* worker takes its next payload only from its receive, after Process has
\* returned for the one before: no payload is held by two workers and a
\* worker holds one payload at a time.
C20_OneWorkerPerPayload == [][C20_Step]_vars /\ []C20_Owners

C20_Witness ==
    /\ wk[1].pc = "stats"
    /\ wk[2].pc = "flush"
    /\ wk[1].p = 2
    /\ wk[2].p = 1
    /\ ndeq = [p \in DOMAIN ndeq |-> IF p <= 2 THEN 1 ELSE 0]

\* C24: a trace whose root carries priority 2 and that holds no error span,
\* and that the priority sampler keeps as it does for a positive priority,
\* is kept, adds 1 to TracesPriority2 and nothing to the other priority
\* counters, and the error score sampler is not called for it.
C24_Step ==
    (/\ pc = "loop" /\ pc' = "iter" /\ cur'.kind = "sampled"
     /\ CounterOf(cur'.raw[cur'.root]) = "TracesPriority2"
     /\ cur'.raw[cur'.root].Metrics[KeySamplingPriority] = 2
     /\ \A i \in 1..Len(cur'.raw) : cur'.raw[i].Error = 0
     /\ cur'.answers.priority[1] = PrioritySamplerKeeps(2)) =>
        /\ cur'.keep
        /\ idx' \in kept'
        /\ ts'.TracesPriority2 = ts.TracesPriority2 + 1
        /\ \A c \in PriorityCounters \ {"TracesPriority2"} : ts'[c] = ts[c]
        /\ cur'.calls.Priority = 1
        /\ cur'.calls.Errors = 0

C27_Step ==
    (pc = "loop" /\ pc' = "iter" /\ cur'.kind = "sampled") =>
        /\ ss'.Events = ss.Events \o [k \in 1..Len(cur'.events) |->
                                         <<idx', cur'.events[k]>>]
        /\ ss'.Size = ss.Size + Msgsize(cur'.events)
                        + IF cur'.keep THEN Msgsize(cur'.trace) ELSE 0
        /\ ~cur'.keep => /\ ss'.Traces = ss.Traces
                         /\ ss'.SpanCount = ss.SpanCount

C27_Delivered ==
    pc \in {"stats", "idle"} =>
        \A i \in DOMAIN grew :
            ~grew[i].keep =>
                /\ i \notin HandedTraces
                /\ \A k \in DOMAIN grew[i].events :
                      <<i, grew[i].events[k]>> \in HandedEvents

C27_EventsOfDroppedTrace == [][C27_Step]_vars /\ []C27_Delivered

C27_Witness ==
    /\ pc = "idle"
    /\ \E i \in DOMAIN grew :
          /\ ~grew[i].keep
          /\ grew[i].events # <<>>
          /\ <<i, grew[i].events[1]>> \in HandedEvents
          /\ i \notin HandedTraces

\* The span at position i of trace t is a service entry point: it has no
\* parent in the trace or its parent belongs to another service.
IsEntrySpan(t, i) ==
    \A j \in 1..Len(t) :
        t[j].SpanID = t[i].ParentID => t[j].Service # t[i].Service

\* C28: when the payload's ClientComputedTopLevel is false, the top-level
\* spans of a trace are computed once, the trace the samplers are asked
\* about carries the marks, and the trace of the stats input carries the
\* same marks; when the flag is true the computation is not run and the
\* metrics of the spans are those the client sent.
C28_TopLevelBeforeSampling ==
    Sampled =>
        /\ ~ClientComputedTopLevel =>
              /\ cur.topLevelCalls = 1
              /\ \A i \in 1..Len(cur.pre) :
                    HasTopLevel(cur.pre[i]) <=> IsEntrySpan(cur.raw, i)
        /\ ClientComputedTopLevel =>
              /\ cur.topLevelCalls = 0
              /\ \A i \in 1..Len(cur.pre) :
                    cur.pre[i].Metrics = cur.raw[i].Metrics
        /\ Len(cur.pre) = Len(cur.raw)
        /\ \A i \in 1..Len(cur.pre) :
              HasTopLevel(cur.trace[i]) <=> HasTopLevel(cur.pre[i])
        /\ sinputs[Len(sinputs)].Trace = idx

C28_Witness ==
    /\ Sampled
    /\ ~ClientComputedTopLevel
    /\ cur.calls.Priority = 1
    /\ \E i \in 1..Len(cur.pre) : i # cur.root /\ HasTopLevel(cur.pre[i])

\* C29: for a trace that reaches sampling, every subtrace (one per top-level
\* span) has its sublayer values in the Sublayers of the trace's stats
\* input; the values are metrics of the subtrace's root span when the trace
\* is kept, and no span is changed after sampling when it is not.
C29_SublayersOnKeptOnly ==
    Sampled =>
        /\ DOMAIN cur.sublayers =
              {i \in 1..Len(cur.sampled) : HasTopLevel(cur.sampled[i])}
        /\ \A r \in DOMAIN cur.sublayers : cur.sublayers[r] # {}
        /\ sinputs[Len(sinputs)].Trace = idx
        /\ sinputs[Len(sinputs)].Sublayers = cur.sublayers
        /\ cur.keep =>
              \A i \in 1..Len(cur.trace) :
                  IF i \in DOMAIN cur.sublayers
                    THEN \A v \in cur.sublayers[i] :
                            /\ v.Metric \in DOMAIN cur.trace[i].Metrics
                            /\ cur.trace[i].Metrics[v.Metric] = v.Value
                    ELSE cur.trace[i] = cur.sampled[i]
        /\ ~cur.keep => cur.trace = cur.sampled

C29_Witness ==
    /\ Sampled
    /\ ~cur.keep
    /\ Cardinality(DOMAIN cur.sublayers) = 2
    /\ sinputs[Len(sinputs)].Sublayers = cur.sublayers
    /\ cur.trace = cur.sampled

\* The traces of the first n batches handed to the trace writer, in the
\* order they were handed, and the kept traces in the payload's order.
RECURSIVE HandedInOrder(_)
HandedInOrder(n) ==
    IF n = 0 THEN <<>> ELSE HandedInOrder(n - 1) \o batches[n].Traces
IsKept(i) == i \in kept
KeptInOrder == SelectSeq([i \in 1..idx |-> i], IsKept)

\* C30: at the end of Process the batches handed to TraceWriter.In hold,
\* read in the order they were sent, exactly the kept traces of the payload
\* in the payload's order, each once; during the loop the same holds of the
\* batches sent so far followed by the running batch.
C30_KeptOnceInOrder ==
    /\ pc \in {"stats", "idle"} => HandedInOrder(Len(batches)) = KeptInOrder
    /\ pc \in {"loop", "iter", "flush"} =>
          HandedInOrder(Len(batches)) \o ss.Traces = KeptInOrder

C30_Witness ==
    /\ pc = "idle"
    /\ Len(batches) = 2
    /\ batches[1].Traces = <<1>>
    /\ batches[2].Traces = <<2>>

\* C21: a worker at a send to TraceWriter.In, Concentrator.In or OutStats
\* either stays there holding the same batch, slice or payload, or leaves
\* with it appended to the channel, and no channel ever holds more than its
\* capacity: nothing built is discarded.
C21_Step ==
    /\ pc = "flush" =>
          IF pc' = "flush" THEN ss' = ss
          ELSE /\ Len(TraceWriterIn) < ChanCap
               /\ TraceWriterIn' = Append(TraceWriterIn, ss)
    /\ (pc = "loop" /\ idx >= ntraces /\ ss.Size > 0) =>
          IF pc' = "loop" THEN ss' = ss
          ELSE /\ Len(TraceWriterIn) < ChanCap
               /\ TraceWriterIn' = Append(TraceWriterIn, ss)
    /\ (pc = "stats" /\ Len(sinputs) > 0) =>
          IF pc' = "stats" THEN sinputs' = sinputs
          ELSE /\ Len(ConcentratorIn) < ChanCap
               /\ ConcentratorIn' = Append(ConcentratorIn, sinputs)
    /\ statsPc = "send" =>
          IF statsPc' = "send" THEN out' = out
          ELSE /\ Len(OutStats) < ChanCap
               /\ OutStats' = Append(OutStats, out)

C21_Bounded ==
    /\ Len(TraceWriterIn) <= ChanCap
    /\ Len(ConcentratorIn) <= ChanCap
    /\ Len(OutStats) <= ChanCap

C21_BlocksNeverDrops == [][C21_Step]_vars /\ []C21_Bounded

C21_Witness ==
    /\ pc = "flush"
    /\ ss.Traces # <<>>
    /\ Len(TraceWriterIn) = ChanCap
    /\ Len(ConcentratorIn) = ChanCap
    /\ statsPc = "send"
    /\ Len(OutStats) = ChanCap

\* The pairs of a tag set written as key:value and joined by commas.
RECURSIVE JoinPairs(_, _)
JoinPairs(tagset, n) ==
    IF n = 1 THEN tagset[1][1] \o ":" \o tagset[1][2]
    ELSE JoinPairs(tagset, n - 1) \o "," \o tagset[n][1] \o ":" \o tagset[n][2]

\* C22: for a payload of one bucket holding one group, ProcessStats builds
\* one bucket of exactly three counts, of measure hits with the group's
\* Hits, errors with its Errors and duration with its Duration; the three
\* have one name and one tag set, and each key is the name, the measure and
\* the serialization of that tag set.
C22_ThreeCountsOneGrain ==
    (/\ statsPc = "send"
     /\ Len(statsIn.Stats) = 1
     /\ Len(statsIn.Stats[1].Stats) = 1) =>
        /\ Len(out.Stats) = 1
        /\ LET b == statsIn.Stats[1].Stats[1]
               counts == out.Stats[1].Counts
           IN /\ Cardinality(DOMAIN counts) = 3
              /\ \A mv \in {<<HITS, b.Hits>>, <<ERRORS, b.Errors>>,
                            <<DURATION, b.Duration>>} :
                    \E k \in DOMAIN counts :
                        /\ counts[k].Measure = mv[1]
                        /\ counts[k].Value = mv[2]
              /\ \A k1, k2 \in DOMAIN counts :
                    /\ counts[k1].TagSet = counts[k2].TagSet
                    /\ counts[k1].Name = counts[k2].Name
              /\ \A k \in DOMAIN counts :
                    /\ counts[k].Key = k
                    /\ k = counts[k].Name \o "|" \o counts[k].Measure \o "|"
                             \o JoinPairs(counts[k].TagSet,
                                          Len(counts[k].TagSet))

C22_Witness ==
    /\ statsPc = "send"
    /\ Len(statsIn.Stats) = 1
    /\ statsIn.Stats[1].Stats = <<GroupR>>
    /\ \E k \in DOMAIN out.Stats[1].Counts :
          /\ out.Stats[1].Counts[k].Measure = DURATION
          /\ out.Stats[1].Counts[k].Value = 500

\* C23: a call of ProcessStats changes nothing of the trace path - the
\* TagStats, the calls of sample and of the samplers, the running batch,
\* the stats inputs, TraceWriter.In and Concentrator.In - and OutStats grows
\* only at the end of a call, by the one payload the call built.
C23_Step ==
    /\ (statsPc = "idle" /\ statsPc' = "send") =>
          UNCHANGED <<processVars, chanVars, OutStats>>
    /\ (statsPc = "send" /\ statsPc' = "idle") =>
          /\ OutStats' = Append(OutStats, out)
          /\ UNCHANGED <<processVars, chanVars>>
    /\ Len(OutStats') > Len(OutStats) =>
          statsPc = "send" /\ statsPc' = "idle"

C23_StatsBypassTracePath == [][C23_Step]_vars

C23_Witness ==
    /\ statsPc = "idle"
    /\ Len(OutStats) = 1
    /\ pc = "iter"
    /\ ts.SpansReceived > 0
    /\ TraceWriterIn = <<>>
    /\ ConcentratorIn = <<>>

C26_NoIncrementLost ==
    \A i \in DOMAIN CounterOrder :
        ts[CounterOrder[i]] =
            NewTagStats[CounterOrder[i]] + made[CounterOrder[i]]

C26_Witness ==
    \E w1, w2 \in Workers :
        /\ w1 # w2
        /\ cw[w1].pc = "adding"
        /\ cw[w2].pc = "adding"
        /\ made[cw[w2].plan[1][1]] > 0
        /\ cw[w2].read # ts[cw[w2].plan[1][1]]

\* C31: Process never emits an empty output.  Every value put on
\* TraceWriter.In has Size > 0 and holds a trace or an event, every value
\* put on Concentrator.In holds a stats input, and as long as no trace of
\* the payload has passed the length check, normalization and the
\* blacklist, nothing has been sent for the payload.
C31_Step ==
    /\ Len(TraceWriterIn') > Len(TraceWriterIn) =>
          LET b == TraceWriterIn'[Len(TraceWriterIn')]
          IN /\ b.Size > 0
             /\ Len(b.Traces) + Len(b.Events) > 0
    /\ Len(ConcentratorIn') > Len(ConcentratorIn) =>
          Len(ConcentratorIn'[Len(ConcentratorIn')]) > 0
    /\ passed' = {} =>
          /\ Len(TraceWriterIn') <= Len(TraceWriterIn)
          /\ Len(ConcentratorIn') <= Len(ConcentratorIn)
C31_NothingSentYet ==
    /\ \A b \in DOMAIN batches :
          /\ batches[b].Size > 0
          /\ Len(batches[b].Traces) + Len(batches[b].Events) > 0
    /\ passed = {} => batches = <<>> /\ statsSent = <<>>
C31_NeverEmptyOutput == [][C31_Step]_vars /\ []C31_NothingSentYet

\* A payload of MaxTraces traces, none of which passed, has been processed
\* to its end.
C31_Witness ==
    /\ pc = "idle"
    /\ ntraces = MaxTraces
    /\ idx = ntraces
    /\ passed = {}
    /\ batches = <<>>
    /\ statsSent = <<>>

\* Payload p waits on the ingestion queue; payload p was taken by a worker
\* and the worker's Process call on it has returned.
Queued(p) == \E i \in DOMAIN In : In[i] = p
Returned(p) ==
    /\ ndeq[p] > 0
    /\ ~Queued(p)
    /\ \A w \in Workers : wk[w].p # p

\* C32: while the agent runs, under fair scheduling of Run and of the
\* workers and with consumers that keep draining TraceWriter.In and
\* Concentrator.In, every payload put on the ingestion queue is eventually
\* dequeued by a worker whose Process call on it eventually returns.
C32_EveryPayloadProcessed ==
    \A p \in 1..MaxPayloads : Queued(p) ~> Returned(p)

\* The receiver has put all its payloads, every one of them has been
\* processed to the end and the context is not cancelled.
C32_Witness ==
    /\ ~ctxDone
    /\ produced = MaxPayloads
    /\ \A p \in 1..MaxPayloads : Returned(p)

\* The number of groups in the first n buckets of the client's payload.
RECURSIVE GroupsBefore(_, _)
GroupsBefore(p, n) ==
    IF n = 0 THEN 0 ELSE GroupsBefore(p, n - 1) + Len(p.Stats[n].Stats)

\* C33: ProcessStats builds one output bucket per group of the client's
\* payload, in the order of the input: the bucket of the k-th group of the
\* n-th client bucket stands after those of all earlier groups, carries
\* the Start and Duration of the n-th client bucket and exactly three
\* counts, which hold that group's own Hits, Errors and Duration whatever
\* the other groups are.
C33_BucketPerGroup ==
    statsPc = "send" =>
        /\ Len(out.Stats) = GroupsBefore(statsIn, Len(statsIn.Stats))
        /\ \A n \in DOMAIN statsIn.Stats :
             \A k \in DOMAIN statsIn.Stats[n].Stats :
                LET b == statsIn.Stats[n].Stats[k]
                    o == out.Stats[GroupsBefore(statsIn, n - 1) + k]
                IN /\ o.Start = statsIn.Stats[n].Start
                   /\ o.Duration = statsIn.Stats[n].Duration
                   /\ Cardinality(DOMAIN o.Counts) = 3
                   /\ \A mv \in {<<HITS, b.Hits>>, <<ERRORS, b.Errors>>,
                                 <<DURATION, b.Duration>>} :
                         \E c \in DOMAIN o.Counts :
                             /\ o.Counts[c].Measure = mv[1]
                             /\ o.Counts[c].Value = mv[2]
                             /\ o.Counts[c].TopLevel = b.Hits

\* Two groups of one name, resource, service and status code in one client
\* bucket have given two buckets under the same keys with different values.
C33_Witness ==
    /\ statsPc = "send"
    /\ Len(statsIn.Stats) = 1
    /\ statsIn.Stats[1].Stats = <<GroupR, GroupR2>>
    /\ Len(out.Stats) = 2
    /\ DOMAIN out.Stats[1].Counts = DOMAIN out.Stats[2].Counts
    /\ out.Stats[1].Counts # out.Stats[2].Counts

\* C34: protobuf round trip.  Marshal of a payload returns no error, and
\* Unmarshal of the bytes on a fresh message returns no error and fills it
\* with the field values of the payload, its buckets and their groups in
\* the same order.
C34_RoundTrip ==
    /\ pbPc # "idle" => pbData.err = ""
    /\ pbPc = "done" =>
          /\ pbOut.err = ""
          /\ pbOut.m = pbMsg

\* A payload of MaxBuckets different buckets, the last with two different
\* groups and numbers of more than one byte, has made the round trip.
C34_Witness ==
    /\ pbPc = "done"
    /\ Len(pbMsg.Stats) = MaxBuckets
    /\ pbMsg.Stats[1] # pbMsg.Stats[MaxBuckets]
    /\ pbMsg.Stats[MaxBuckets].Stats = <<PbSparseGroup, PbFullGroup>>
    /\ pbMsg.Hostname = LongName
    /\ pbOut.m = pbMsg
    /\ Len(pbData.data) > 128

====
